---- MODULE Spec2Model ----
(***************************************************************************)
(* MeadTUI: the interactive form/navigation core (src/src/app.rs, the four *)
(* views under src/src/views and the InputField widget) as a state         *)
(* machine.  One loop iteration of App::run is a Draw step followed by one *)
(* input event.  The store (src/src/db.rs) is modelled by its tables and   *)
(* each call may fail.                                                     *)
(*                                                                         *)
(* Strings are sequences of characters; a character occupies Width(c)      *)
(* bytes of the UTF-8 buffer.  Rust's String is indexed by byte offset, so *)
(* InputField.cursor is modelled as the byte offset the code uses.         *)
(* f64 values are modelled in thousandths (1.100 is 1100).                 *)
(***************************************************************************)
EXTENDS Integers, Sequences, FiniteSets, TLC

\* ------------------------------------------------------------- bounds
\* Key presses handled in one run of the loop.
MaxKeys == 5
\* Records in the store when the program starts.
MaxInitMeads == 2
\* Bytes in the stand-alone editor of SpecField before typing stops.
MaxFieldBytes == 4
\* key presses of one run restricted to the command keys
MaxCmdKeys == 7
\* key presses of one run that starts on a filled-in form
MaxSubmitKeys == 4
MaxIngredientKeys == 5

VARIABLES
    current_view,    \* App.current_view
    should_exit,     \* App.should_exit
    main_menu,       \* App.main_menu
    mead_list,       \* App.mead_list
    new_mead,        \* App.new_mead
    mead_detail,     \* App.mead_detail
    status_message,  \* App.status_message, <<>> is None and <<m>> is Some(m)
    db,              \* the store's tables
    pc,              \* position of App::run
    key,             \* the input event read last
    calls,           \* store calls issued by the last step, in order
    keys_read,       \* key presses handled so far
    field            \* a stand-alone InputField (SpecField)

vars == <<current_view, should_exit, main_menu, mead_list, new_mead,
          mead_detail, status_message, db, pc, key, calls, keys_read, field>>

None == <<>>
Some(x) == <<x>>

\* ------------------------------------------------------------ strings
\* Characters of two UTF-8 bytes; every other character has one.
WideChars == {"é"}
Width(c) == IF c \in WideChars THEN 2 ELSE 1

\* str::len: the length in bytes.
RECURSIVE ByteLen(_)
ByteLen(s) == IF s = <<>> THEN 0 ELSE Width(Head(s)) + ByteLen(Tail(s))

\* The byte offset at which the i-th character starts (i = Len(s)+1: the end).
OffsetOf(s, i) == ByteLen(SubSeq(s, 1, i - 1))

\* str::is_char_boundary
is_char_boundary(s, b) == \E i \in 1..(Len(s) + 1) : OffsetOf(s, i) = b

\* The index of the character that starts at byte offset b (a boundary).
CharAt(s, b) == CHOOSE i \in 1..(Len(s) + 1) : OffsetOf(s, i) = b

\* String::insert(idx, ch): panics unless idx is a char boundary.
StringInsert(s, b, c) ==
    IF ~is_char_boundary(s, b)
    THEN [panic |-> TRUE, s |-> s]
    ELSE LET i == CharAt(s, b)
         IN  [panic |-> FALSE,
              s |-> SubSeq(s, 1, i - 1) \o <<c>> \o SubSeq(s, i, Len(s))]

\* String::remove(idx): panics unless a character starts at idx.
StringRemove(s, b) ==
    IF ~is_char_boundary(s, b) \/ b >= ByteLen(s)
    THEN [panic |-> TRUE, s |-> s]
    ELSE LET i == CharAt(s, b)
         IN  [panic |-> FALSE,
              s |-> SubSeq(s, 1, i - 1) \o SubSeq(s, i + 1, Len(s))]

\* --------------------------------------------------------- InputField
\* label and placeholder are fixed at construction and only rendered.
InputField_new == [value |-> <<>>, cursor |-> 0, focused |-> FALSE, panic |-> FALSE]

with_value(f, v) == [f EXCEPT !.value = v, !.cursor = ByteLen(v)]

insert_char(f, c) ==
    LET r == StringInsert(f.value, f.cursor, c)
    IN  IF r.panic THEN [f EXCEPT !.panic = TRUE]
        ELSE [f EXCEPT !.value = r.s, !.cursor = f.cursor + 1]

delete_char(f) ==
    IF f.cursor > 0
    THEN LET r == StringRemove(f.value, f.cursor - 1)
         IN  IF r.panic THEN [f EXCEPT !.cursor = f.cursor - 1, !.panic = TRUE]
             ELSE [f EXCEPT !.value = r.s, !.cursor = f.cursor - 1]
    ELSE f

delete_char_forward(f) ==
    IF f.cursor < ByteLen(f.value)
    THEN LET r == StringRemove(f.value, f.cursor)
         IN  IF r.panic THEN [f EXCEPT !.panic = TRUE]
             ELSE [f EXCEPT !.value = r.s]
    ELSE f

move_cursor_left(f) == IF f.cursor > 0 THEN [f EXCEPT !.cursor = f.cursor - 1] ELSE f

move_cursor_right(f) ==
    IF f.cursor < ByteLen(f.value) THEN [f EXCEPT !.cursor = f.cursor + 1] ELSE f

move_cursor_start(f) == [f EXCEPT !.cursor = 0]

move_cursor_end(f) == [f EXCEPT !.cursor = ByteLen(f.value)]

clear(f) == [f EXCEPT !.value = <<>>, !.cursor = 0]

get_value(f) == f.value

set_value(f, v) == [f EXCEPT !.value = v, !.cursor = ByteLen(v)]

set_focused(f, focused) == [f EXCEPT !.focused = focused]

\* f64::from_str on the characters the buffers can hold: digits with at most
\* one '.', at least one digit.  The result is in thousandths; None when the
\* text is no number.  (Signs, exponents, "inf" and "nan" need characters no
\* modelled key types and no formatted value contains.)
Digits == <<"0", "1", "2", "3", "4", "5", "6", "7", "8", "9">>
IsDigit(c) == \E d \in 1..10 : Digits[d] = c
DigitVal(c) == (CHOOSE d \in 1..10 : Digits[d] = c) - 1

RECURSIVE DigitsVal(_)
DigitsVal(s) == IF s = <<>> THEN 0 ELSE DigitsVal(SubSeq(s, 1, Len(s) - 1)) * 10 + DigitVal(s[Len(s)])

\* The fraction digits as thousandths.  No buffer holds more than three of
\* them: values are formatted with at most three and no key types a digit.
FracVal(s) == DigitsVal(SubSeq(s \o <<"0", "0", "0">>, 1, 3))

get_f64(f) ==
    LET s == f.value
        dots == {i \in 1..Len(s) : s[i] = "."}
    IN  IF s = <<>> \/ (\E i \in 1..Len(s) : ~IsDigit(s[i]) /\ s[i] # ".")
           \/ Cardinality(dots) > 1 \/ Len(s) = Cardinality(dots)
        THEN None
        ELSE IF dots = {} THEN Some(DigitsVal(s) * 1000)
        ELSE LET d == CHOOSE i \in dots : TRUE
             IN  Some(DigitsVal(SubSeq(s, 1, d - 1)) * 1000 + FracVal(SubSeq(s, d + 1, Len(s))))

unwrap_or(o, dflt) == IF o = None THEN dflt ELSE o[1]

\* The decimal digits of a natural number.
RECURSIVE NatToStr(_)
NatToStr(n) == IF n < 10 THEN <<Digits[n + 1]>> ELSE NatToStr(n \div 10) \o <<Digits[(n % 10) + 1]>>

\* format!("{:.3}", x) for x >= 0 in thousandths.
Format3(x) ==
    NatToStr(x \div 1000) \o <<".">> \o
    <<Digits[((x \div 100) % 10) + 1], Digits[((x \div 10) % 10) + 1], Digits[(x % 10) + 1]>>

\* format!("{:.0}", x) for x >= 0 in thousandths: rounds half to even.
Format0(x) ==
    LET q == x \div 1000
        r == x % 1000
    IN  NatToStr(IF r < 500 THEN q ELSE IF r > 500 THEN q + 1 ELSE IF q % 2 = 0 THEN q ELSE q + 1)

\* ------------------------------------------------------------- models
\* A variant that leaves Finished out of the cycle.
MeadStatus_next_skips_finished(st) ==
    CASE st = "Planning" -> "Primary"
      [] st = "Primary" -> "Secondary"
      [] st = "Secondary" -> "Aging"
      [] st = "Aging" -> "Bottled"
      [] st = "Bottled" -> "Planning"
      [] st = "Finished" -> "Planning"

MeadStatus_next(st) ==
    CASE st = "Planning" -> "Primary"
      [] st = "Primary" -> "Secondary"
      [] st = "Secondary" -> "Aging"
      [] st = "Aging" -> "Bottled"
      [] st = "Bottled" -> "Finished"
      [] st = "Finished" -> "Planning"

MeadStatus_prev(st) ==
    CASE st = "Planning" -> "Finished"
      [] st = "Primary" -> "Planning"
      [] st = "Secondary" -> "Primary"
      [] st = "Aging" -> "Secondary"
      [] st = "Bottled" -> "Aging"
      [] st = "Finished" -> "Bottled"

\* Utc::now().format("%Y-%m-%d"): one sample day.
Today == <<"2", "0", "2", "6", "-", "1", "1", "-", "0", "4">>

\* Mead::default().  created_at and updated_at only order the store's rows,
\* which the store model keeps as the order of its sequence.
Mead_default ==
    [id |-> 0, name |-> <<>>, start_date |-> Today, honey_type |-> <<>>,
     honey_amount_lbs |-> 0, yeast_strain |-> <<>>, target_abv |-> 14000,
     starting_gravity |-> 1100, current_gravity |-> 1100, yan_required |-> 0,
     yan_added |-> 0, volume_gallons |-> 1000, status |-> "Planning",
     notes |-> <<>>]

Ingredient_default ==
    [id |-> 0, mead_id |-> 0, ingredient_type |-> "Other", name |-> <<>>,
     amount |-> 0, unit |-> <<"o", "z">>, added_date |-> Today]

LogEntry_default == [id |-> 0, mead_id |-> 0, entry_text |-> <<>>]

\* ---------------------------------------------------------- main menu
MainMenuView_new == [selected |-> 0]

\* options.len()
MenuOptions == 2

MainMenuView_next(m) == [m EXCEPT !.selected = (m.selected + 1) % MenuOptions]

\* A variant that stops at the first option instead of wrapping.
MainMenuView_previous_stops(m) ==
    IF m.selected = 0 THEN m ELSE [m EXCEPT !.selected = m.selected - 1]

MainMenuView_previous(m) ==
    IF m.selected = 0 THEN [m EXCEPT !.selected = MenuOptions - 1]
    ELSE [m EXCEPT !.selected = m.selected - 1]

\* ---------------------------------------------------------- mead list
MeadListView_new == [meads |-> <<>>, selected |-> 0, needs_refresh |-> TRUE]

\* A variant that keeps the selected index whatever the new length.
set_meads_keeps_selected(l, meads) ==
    [meads |-> meads, needs_refresh |-> FALSE, selected |-> l.selected]

set_meads(l, meads) ==
    [meads |-> meads,
     needs_refresh |-> FALSE,
     selected |-> IF l.selected >= Len(meads) /\ meads # <<>>
                  THEN Len(meads) - 1 ELSE l.selected]

MeadListView_next(l) ==
    IF l.meads # <<>> THEN [l EXCEPT !.selected = (l.selected + 1) % Len(l.meads)] ELSE l

MeadListView_previous(l) ==
    IF l.meads # <<>>
    THEN IF l.selected = 0 THEN [l EXCEPT !.selected = Len(l.meads) - 1]
         ELSE [l EXCEPT !.selected = l.selected - 1]
    ELSE l

\* A variant that yields a default record when the index is out of range.
get_selected_or_default(l) ==
    IF l.selected < Len(l.meads) THEN Some(l.meads[l.selected + 1]) ELSE Some(Mead_default)

\* Vec::get: None when the index is out of range.
get_selected(l) ==
    IF l.selected < Len(l.meads) THEN Some(l.meads[l.selected + 1]) ELSE None

\* ------------------------------------------------------ new-mead form
\* NewMeadField::from_index: the editor of slot i, "Submit" for every other i.
NewMeadEditors ==
    <<"name", "start_date", "honey_type", "honey_amount", "yeast_strain",
      "target_abv", "starting_gravity", "volume_gallons", "yan_required", "notes">>

NewMeadField_from_index(i) == IF i < 10 THEN NewMeadEditors[i + 1] ELSE "Submit"

NewMeadField_count == 11

NewMeadView_new ==
    [name |-> InputField_new,
     start_date |-> with_value(InputField_new, Today),
     honey_type |-> InputField_new,
     honey_amount |-> with_value(InputField_new, <<"3", ".", "0">>),
     yeast_strain |-> InputField_new,
     target_abv |-> with_value(InputField_new, <<"1", "4", ".", "0">>),
     starting_gravity |-> with_value(InputField_new, <<"1", ".", "1", "0", "0">>),
     volume_gallons |-> with_value(InputField_new, <<"1", ".", "0">>),
     yan_required |-> with_value(InputField_new, <<"2", "0", "0">>),
     notes |-> InputField_new,
     current_field |-> 0,
     editing |-> FALSE]

NewMead_set_field_focus(v, focused) ==
    LET fld == NewMeadField_from_index(v.current_field)
    IN  IF fld = "Submit" THEN v
        ELSE [v EXCEPT ![fld] = set_focused(v[fld], focused)]

\* A plausible slip: the old slot's editor keeps its focus flag.
NewMead_next_field_keeps_focus(v) ==
    LET b == [v EXCEPT !.editing = FALSE,
                       !.current_field = (v.current_field + 1) % NewMeadField_count]
    IN  NewMead_set_field_focus(b, TRUE)

\* A variant that moves on without leaving the edit mode.
NewMead_next_field_keeps_editing(v) ==
    LET a == NewMead_set_field_focus(v, FALSE)
        b == [a EXCEPT !.current_field = (a.current_field + 1) % NewMeadField_count]
    IN  NewMead_set_field_focus(b, TRUE)

NewMead_next_field(v) ==
    LET a == NewMead_set_field_focus(v, FALSE)
        b == [a EXCEPT !.editing = FALSE,
                       !.current_field = (a.current_field + 1) % NewMeadField_count]
    IN  NewMead_set_field_focus(b, TRUE)

\* A variant that leaves the edit mode as it was.
NewMead_previous_field_keeps_editing(v) ==
    LET a == NewMead_set_field_focus(v, FALSE)
        b == [a EXCEPT !.current_field = IF a.current_field = 0
                                         THEN NewMeadField_count - 1
                                         ELSE a.current_field - 1]
    IN  NewMead_set_field_focus(b, TRUE)

NewMead_previous_field(v) ==
    LET a == NewMead_set_field_focus(v, FALSE)
        b == [a EXCEPT !.editing = FALSE,
                       !.current_field = IF a.current_field = 0
                                         THEN NewMeadField_count - 1
                                         ELSE a.current_field - 1]
    IN  NewMead_set_field_focus(b, TRUE)

\* get_current_field_mut: the name of the current slot's editor, or None.
NewMead_get_current_field(v) ==
    LET fld == NewMeadField_from_index(v.current_field)
    IN  IF fld = "Submit" THEN None ELSE Some(fld)

\* A plausible slip: the last editor taken for the submit slot.
NewMead_is_on_submit_off_by_one(v) == v.current_field >= 9

NewMead_is_on_submit(v) == NewMeadField_from_index(v.current_field) = "Submit"

NewMead_toggle_edit(v) ==
    IF ~NewMead_is_on_submit(v) THEN [v EXCEPT !.editing = ~v.editing] ELSE v

NewMead_cancel_edit(v) == [v EXCEPT !.editing = FALSE]

NewMead_insert_char(v, c) ==
    LET o == NewMead_get_current_field(v)
    IN  IF o # None THEN [v EXCEPT ![o[1]] = insert_char(v[o[1]], c)] ELSE v

NewMead_delete_char(v) ==
    LET o == NewMead_get_current_field(v)
    IN  IF o # None THEN [v EXCEPT ![o[1]] = delete_char(v[o[1]])] ELSE v

NewMead_delete_char_forward(v) ==
    LET o == NewMead_get_current_field(v)
    IN  IF o # None THEN [v EXCEPT ![o[1]] = delete_char_forward(v[o[1]])] ELSE v

NewMead_move_cursor_left(v) ==
    LET o == NewMead_get_current_field(v)
    IN  IF o # None THEN [v EXCEPT ![o[1]] = move_cursor_left(v[o[1]])] ELSE v

NewMead_move_cursor_right(v) ==
    LET o == NewMead_get_current_field(v)
    IN  IF o # None THEN [v EXCEPT ![o[1]] = move_cursor_right(v[o[1]])] ELSE v

NewMead_move_cursor_start(v) ==
    LET o == NewMead_get_current_field(v)
    IN  IF o # None THEN [v EXCEPT ![o[1]] = move_cursor_start(v[o[1]])] ELSE v

NewMead_move_cursor_end(v) ==
    LET o == NewMead_get_current_field(v)
    IN  IF o # None THEN [v EXCEPT ![o[1]] = move_cursor_end(v[o[1]])] ELSE v

\* A variant whose fallbacks are the texts the form starts with.
build_mead_initial_texts(v) ==
    [Mead_default EXCEPT
        !.name = get_value(v.name),
        !.start_date = get_value(v.start_date),
        !.honey_type = get_value(v.honey_type),
        !.honey_amount_lbs = unwrap_or(get_f64(v.honey_amount), 3000),
        !.yeast_strain = get_value(v.yeast_strain),
        !.target_abv = unwrap_or(get_f64(v.target_abv), 14000),
        !.starting_gravity = unwrap_or(get_f64(v.starting_gravity), 1100),
        !.current_gravity = unwrap_or(get_f64(v.starting_gravity), 1100),
        !.volume_gallons = unwrap_or(get_f64(v.volume_gallons), 1000),
        !.yan_required = unwrap_or(get_f64(v.yan_required), 200000),
        !.yan_added = 0,
        !.status = "Primary",
        !.notes = get_value(v.notes)]

build_mead(v) ==
    [Mead_default EXCEPT
        !.name = get_value(v.name),
        !.start_date = get_value(v.start_date),
        !.honey_type = get_value(v.honey_type),
        !.honey_amount_lbs = unwrap_or(get_f64(v.honey_amount), 0),
        !.yeast_strain = get_value(v.yeast_strain),
        !.target_abv = unwrap_or(get_f64(v.target_abv), 14000),
        !.starting_gravity = unwrap_or(get_f64(v.starting_gravity), 1100),
        !.current_gravity = unwrap_or(get_f64(v.starting_gravity), 1100),
        !.volume_gallons = unwrap_or(get_f64(v.volume_gallons), 1000),
        !.yan_required = unwrap_or(get_f64(v.yan_required), 0),
        !.yan_added = 0,
        !.status = "Primary",
        !.notes = get_value(v.notes)]

\* -------------------------------------------------------- mead detail
\* DetailField::from_index: the editor of slot i, "Status" for slot 1.
DetailField_from_index(i) ==
    CASE i = 0 -> "name_input"
      [] i = 1 -> "Status"
      [] i = 2 -> "current_gravity_input"
      [] i = 3 -> "yan_added_input"
      [] OTHER -> "notes_input"

DetailField_count == 5

MeadDetailView_new ==
    [mead |-> None,
     ingredients |-> <<>>,
     log_entries |-> <<>>,
     needs_refresh |-> TRUE,
     current_field |-> 0,
     editing |-> FALSE,
     name_input |-> InputField_new,
     current_gravity_input |-> InputField_new,
     yan_added_input |-> InputField_new,
     notes_input |-> InputField_new,
     current_status |-> "Planning",
     log_input |-> InputField_new,
     show_log_input |-> FALSE,
     ingredient_name_input |-> InputField_new,
     ingredient_amount_input |-> InputField_new,
     ingredient_unit_input |-> with_value(InputField_new, <<"o", "z">>),
     selected_ingredient_type |-> "Fruit",
     show_ingredient_input |-> FALSE,
     ingredient_field |-> 0]

\* A variant that leaves the status shown as it was.
set_mead_keeps_status(v, mead, ingredients, log_entries) ==
    [v EXCEPT
        !.name_input = set_value(v.name_input, mead.name),
        !.current_gravity_input = set_value(v.current_gravity_input, Format3(mead.current_gravity)),
        !.yan_added_input = set_value(v.yan_added_input, Format0(mead.yan_added)),
        !.notes_input = set_value(v.notes_input, mead.notes),
        !.mead = Some(mead),
        !.ingredients = ingredients,
        !.log_entries = log_entries,
        !.needs_refresh = FALSE]

\* A variant that fills the editors but keeps the snapshot it had.
set_mead_keeps_snapshot(v, mead, ingredients, log_entries) ==
    [v EXCEPT
        !.name_input = set_value(v.name_input, mead.name),
        !.current_gravity_input = set_value(v.current_gravity_input, Format3(mead.current_gravity)),
        !.yan_added_input = set_value(v.yan_added_input, Format0(mead.yan_added)),
        !.notes_input = set_value(v.notes_input, mead.notes),
        !.current_status = mead.status,
        !.ingredients = ingredients,
        !.log_entries = log_entries,
        !.needs_refresh = FALSE]

set_mead(v, mead, ingredients, log_entries) ==
    [v EXCEPT
        !.name_input = set_value(v.name_input, mead.name),
        !.current_gravity_input = set_value(v.current_gravity_input, Format3(mead.current_gravity)),
        !.yan_added_input = set_value(v.yan_added_input, Format0(mead.yan_added)),
        !.notes_input = set_value(v.notes_input, mead.notes),
        !.current_status = mead.status,
        !.mead = Some(mead),
        !.ingredients = ingredients,
        !.log_entries = log_entries,
        !.needs_refresh = FALSE]

update_ingredient_focus(v) ==
    [v EXCEPT
        !.ingredient_name_input = set_focused(v.ingredient_name_input, v.ingredient_field = 0),
        !.ingredient_amount_input = set_focused(v.ingredient_amount_input, v.ingredient_field = 1),
        !.ingredient_unit_input = set_focused(v.ingredient_unit_input, v.ingredient_field = 2)]

Detail_set_field_focus(v, focused) ==
    LET fld == DetailField_from_index(v.current_field)
    IN  IF fld = "Status" THEN v
        ELSE [v EXCEPT ![fld] = set_focused(v[fld], focused)]

\* A variant that moves the parent list whether or not a sub-form is open.
Detail_next_field_ignores_sub_form(v) ==
    LET a == Detail_set_field_focus(v, FALSE)
        b == [a EXCEPT !.editing = FALSE,
                       !.current_field = (a.current_field + 1) % DetailField_count]
    IN  Detail_set_field_focus(b, TRUE)

Detail_next_field(v) ==
    IF v.show_log_input THEN v
    ELSE IF v.show_ingredient_input
    THEN update_ingredient_focus([v EXCEPT !.ingredient_field = (v.ingredient_field + 1) % 4])
    ELSE LET a == Detail_set_field_focus(v, FALSE)
             b == [a EXCEPT !.editing = FALSE,
                            !.current_field = (a.current_field + 1) % DetailField_count]
         IN  Detail_set_field_focus(b, TRUE)

\* A variant that stands still whichever sub-form is open.
Detail_previous_field_stops_in_sub_form(v) ==
    IF v.show_log_input \/ v.show_ingredient_input THEN v
    ELSE LET a == Detail_set_field_focus(v, FALSE)
             b == [a EXCEPT !.editing = FALSE,
                            !.current_field = IF a.current_field = 0
                                              THEN DetailField_count - 1
                                              ELSE a.current_field - 1]
         IN  Detail_set_field_focus(b, TRUE)

Detail_previous_field(v) ==
    IF v.show_log_input THEN v
    ELSE IF v.show_ingredient_input
    THEN update_ingredient_focus(
            [v EXCEPT !.ingredient_field = IF v.ingredient_field = 0 THEN 3
                                           ELSE v.ingredient_field - 1])
    ELSE LET a == Detail_set_field_focus(v, FALSE)
             b == [a EXCEPT !.editing = FALSE,
                            !.current_field = IF a.current_field = 0
                                              THEN DetailField_count - 1
                                              ELSE a.current_field - 1]
         IN  Detail_set_field_focus(b, TRUE)

\* get_current_field_mut: the name of the editor that takes the edit, or None.
Detail_get_current_field(v) ==
    IF v.show_log_input THEN Some("log_input")
    ELSE IF v.show_ingredient_input
    THEN CASE v.ingredient_field = 0 -> Some("ingredient_name_input")
           [] v.ingredient_field = 1 -> Some("ingredient_amount_input")
           [] v.ingredient_field = 2 -> Some("ingredient_unit_input")
           [] OTHER -> None
    ELSE LET fld == DetailField_from_index(v.current_field)
         IN  IF fld = "Status" THEN None ELSE Some(fld)

\* A variant that never reports editing.
Detail_is_editing_never(v) == FALSE

Detail_is_editing(v) == v.editing

\* A plausible slip: the status slot toggles editing like a text slot.
Detail_toggle_edit_any_slot(v) == [v EXCEPT !.editing = ~v.editing]

\* A variant that cycles the status backward.
Detail_toggle_edit_cycles_back(v) ==
    IF DetailField_from_index(v.current_field) = "Status"
    THEN [v EXCEPT !.current_status = MeadStatus_prev(v.current_status)]
    ELSE [v EXCEPT !.editing = ~v.editing]

Detail_toggle_edit(v) ==
    IF DetailField_from_index(v.current_field) = "Status"
    THEN [v EXCEPT !.current_status = MeadStatus_next(v.current_status)]
    ELSE [v EXCEPT !.editing = ~v.editing]

\* A variant that puts the loaded name back into its editor.
Detail_cancel_edit_reverts(v) ==
    IF v.mead = None THEN [v EXCEPT !.editing = FALSE]
    ELSE [v EXCEPT !.editing = FALSE, !.name_input = set_value(@, v.mead[1].name)]

\* A variant that stays in edit mode.
Detail_cancel_edit_ignored(v) == v

Detail_cancel_edit(v) == [v EXCEPT !.editing = FALSE]

Detail_insert_char(v, c) ==
    IF v.show_ingredient_input /\ v.ingredient_field = 3 THEN v
    ELSE LET o == Detail_get_current_field(v)
         IN  IF o # None THEN [v EXCEPT ![o[1]] = insert_char(v[o[1]], c)] ELSE v

Detail_delete_char(v) ==
    LET o == Detail_get_current_field(v)
    IN  IF o # None THEN [v EXCEPT ![o[1]] = delete_char(v[o[1]])] ELSE v

Detail_delete_char_forward(v) ==
    LET o == Detail_get_current_field(v)
    IN  IF o # None THEN [v EXCEPT ![o[1]] = delete_char_forward(v[o[1]])] ELSE v

IngredientType_left(t) ==
    CASE t = "Fruit" -> "Other"
      [] t = "Spice" -> "Fruit"
      [] t = "Nutrient" -> "Spice"
      [] t = "Adjunct" -> "Nutrient"
      [] t = "Other" -> "Adjunct"

IngredientType_right(t) ==
    CASE t = "Fruit" -> "Spice"
      [] t = "Spice" -> "Nutrient"
      [] t = "Nutrient" -> "Adjunct"
      [] t = "Adjunct" -> "Other"
      [] t = "Other" -> "Fruit"

\* A variant whose Left cycles the category the way Right does.
Detail_move_cursor_left_cycles_forward(v) ==
    IF v.show_ingredient_input /\ v.ingredient_field = 3
    THEN [v EXCEPT !.selected_ingredient_type = IngredientType_right(v.selected_ingredient_type)]
    ELSE LET o == Detail_get_current_field(v)
         IN  IF o # None THEN [v EXCEPT ![o[1]] = move_cursor_left(v[o[1]])] ELSE v

Detail_move_cursor_left(v) ==
    IF v.show_ingredient_input /\ v.ingredient_field = 3
    THEN [v EXCEPT !.selected_ingredient_type = IngredientType_left(v.selected_ingredient_type)]
    ELSE LET o == Detail_get_current_field(v)
         IN  IF o # None THEN [v EXCEPT ![o[1]] = move_cursor_left(v[o[1]])] ELSE v

Detail_move_cursor_right(v) ==
    IF v.show_ingredient_input /\ v.ingredient_field = 3
    THEN [v EXCEPT !.selected_ingredient_type = IngredientType_right(v.selected_ingredient_type)]
    ELSE LET o == Detail_get_current_field(v)
         IN  IF o # None THEN [v EXCEPT ![o[1]] = move_cursor_right(v[o[1]])] ELSE v

clear_ingredient_inputs(v) ==
    [v EXCEPT
        !.ingredient_name_input = clear(v.ingredient_name_input),
        !.ingredient_amount_input = clear(v.ingredient_amount_input),
        !.ingredient_unit_input = set_value(v.ingredient_unit_input, <<"o", "z">>),
        !.selected_ingredient_type = "Fruit",
        !.ingredient_field = 0]

get_updated_mead(v) ==
    IF v.mead = None THEN None
    ELSE LET m == v.mead[1]
         IN  Some([m EXCEPT
                !.name = get_value(v.name_input),
                !.current_gravity = unwrap_or(get_f64(v.current_gravity_input), m.current_gravity),
                !.yan_added = unwrap_or(get_f64(v.yan_added_input), m.yan_added),
                !.notes = get_value(v.notes_input),
                !.status = v.current_status])

\* -------------------------------------------------------------- store
\* The tables of db.rs.  meads and log_entries are kept in the order the
\* reads return them (created_at DESC, timestamp DESC: newest first);
\* ingredients in insertion order.  oc is the outcome of a call: 0 is Ok,
\* any other value the statement (1, 2, 3) at which it fails with Err.
Call(op, id, ok) == [op |-> op, id |-> id, ok |-> ok]

\* Database::create_mead: INSERT with a fresh AUTOINCREMENT id.
create_mead(d, mead, oc) ==
    IF oc = 0
    THEN [d EXCEPT !.meads = <<[mead EXCEPT !.id = d.next_mead_id]>> \o d.meads,
                   !.next_mead_id = d.next_mead_id + 1]
    ELSE d

\* Database::get_all_meads
get_all_meads(d) == d.meads

\* Database::get_mead: Some(row) or None.
get_mead(d, id) ==
    LET rows == SelectSeq(d.meads, LAMBDA m : m.id = id)
    IN  IF rows = <<>> THEN None ELSE Some(rows[1])

\* Database::update_mead: UPDATE ... WHERE id; no row is no error.
update_mead(d, mead, oc) ==
    IF oc = 0
    THEN [d EXCEPT !.meads = [i \in 1..Len(d.meads) |->
                                 IF d.meads[i].id = mead.id THEN mead ELSE d.meads[i]]]
    ELSE d

\* A variant whose last statement removes nothing.
delete_mead_keeps_record(d, id, oc) ==
    LET d1 == [d EXCEPT !.ingredients = SelectSeq(d.ingredients, LAMBDA x : x.mead_id # id)]
        d2 == [d1 EXCEPT !.log_entries = SelectSeq(d.log_entries, LAMBDA x : x.mead_id # id)]
    IN  CASE oc = 0 -> d2
          [] oc = 1 -> d
          [] oc = 2 -> d1
          [] OTHER -> d2

\* Database::delete_mead: three statements, each committed on its own.
delete_mead(d, id, oc) ==
    LET d1 == [d EXCEPT !.ingredients = SelectSeq(d.ingredients, LAMBDA x : x.mead_id # id)]
        d2 == [d1 EXCEPT !.log_entries = SelectSeq(d.log_entries, LAMBDA x : x.mead_id # id)]
        d3 == [d2 EXCEPT !.meads = SelectSeq(d.meads, LAMBDA m : m.id # id)]
    IN  CASE oc = 0 -> d3
          [] oc = 1 -> d
          [] oc = 2 -> d1
          [] OTHER -> d2

\* Database::create_ingredient
create_ingredient(d, ingredient, oc) ==
    IF oc = 0
    THEN [d EXCEPT !.ingredients = d.ingredients \o <<[ingredient EXCEPT !.id = d.next_ingredient_id]>>,
                   !.next_ingredient_id = d.next_ingredient_id + 1]
    ELSE d

\* Database::get_ingredients
get_ingredients(d, mead_id) == SelectSeq(d.ingredients, LAMBDA x : x.mead_id = mead_id)

\* Database::create_log_entry
create_log_entry(d, entry, oc) ==
    IF oc = 0
    THEN [d EXCEPT !.log_entries = <<[entry EXCEPT !.id = d.next_log_id]>> \o d.log_entries,
                   !.next_log_id = d.next_log_id + 1]
    ELSE d

\* Database::get_log_entries
get_log_entries(d, mead_id) == SelectSeq(d.log_entries, LAMBDA x : x.mead_id = mead_id)

\* ---------------------------------------------------------------- app
\* enum View; id is the record id of MeadDetail(id) and 0 otherwise.
MainMenu == [tag |-> "MainMenu", id |-> 0]
MeadList == [tag |-> "MeadList", id |-> 0]
NewMead == [tag |-> "NewMead", id |-> 0]
MeadDetail(id) == [tag |-> "MeadDetail", id |-> id]

\* The strings App puts into status_message.
Msg(kind, text) == [kind |-> kind, text |-> text]

\* An input event.  kind is "Press", "Release", "Repeat" or "Other" (no key
\* event); code is the KeyCode, ch the character of Char(ch), shift the
\* SHIFT modifier.
KeyEvent(code, ch, shift) == [kind |-> "Press", code |-> code, ch |-> ch, shift |-> shift]
Key(code) == KeyEvent(code, "", FALSE)
Char(ch) == KeyEvent("Char", ch, FALSE)
IsChar(k, ch) == k.code = "Char" /\ k.ch = ch

\* The fields of App as one record, and a store call added to the step's log.
App ==
    [current_view |-> current_view, should_exit |-> should_exit,
     main_menu |-> main_menu, mead_list |-> mead_list, new_mead |-> new_mead,
     mead_detail |-> mead_detail, status_message |-> status_message,
     db |-> db, calls |-> <<>>]

\* A variant that marks the detail screen stale whatever the outcome.
Issue_marks_stale(a, op, id, oc, newdb) ==
    [a EXCEPT !.db = newdb, !.calls = a.calls \o <<Call(op, id, oc = 0)>>,
              !.mead_detail.needs_refresh = TRUE]

Issue(a, op, id, oc, newdb) ==
    [a EXCEPT !.db = newdb, !.calls = a.calls \o <<Call(op, id, oc = 0)>>]

\* A variant that opens the list without marking it stale.
open_mead_list_not_stale(a) == [a EXCEPT !.current_view = MeadList]

\* App::handle_main_menu_key, Enter on option 0.
open_mead_list(a) ==
    [a EXCEPT !.mead_list.needs_refresh = TRUE, !.current_view = MeadList]

\* App::handle_main_menu_key
handle_main_menu_key(a, k) ==
    IF IsChar(k, "q") THEN [a EXCEPT !.should_exit = TRUE]
    ELSE IF k.code = "Up" \/ IsChar(k, "k")
    THEN [a EXCEPT !.main_menu = MainMenuView_previous(a.main_menu)]
    ELSE IF k.code = "Down" \/ IsChar(k, "j")
    THEN [a EXCEPT !.main_menu = MainMenuView_next(a.main_menu)]
    ELSE IF k.code = "Enter"
    THEN CASE a.main_menu.selected = 0 -> open_mead_list(a)
           [] a.main_menu.selected = 1 ->
                [a EXCEPT !.new_mead = NewMeadView_new, !.current_view = NewMead]
           [] OTHER -> a
    ELSE a

\* A variant that deletes without marking the list stale.
delete_selected_mead_not_stale(a, oc) ==
    LET sel == get_selected(a.mead_list)
    IN  IF sel # None
        THEN LET b == Issue(a, "delete_mead", sel[1].id, oc, delete_mead(a.db, sel[1].id, oc))
             IN  IF oc = 0
                 THEN [b EXCEPT !.status_message = Some(Msg("Deleted mead", sel[1].name))]
                 ELSE b
        ELSE a

\* App::handle_mead_list_key, 'd': delete the selected record.
delete_selected_mead(a, oc) ==
    LET sel == get_selected(a.mead_list)
    IN  IF sel # None
        THEN LET b == Issue(a, "delete_mead", sel[1].id, oc, delete_mead(a.db, sel[1].id, oc))
             IN  IF oc = 0
                 THEN [b EXCEPT !.mead_list.needs_refresh = TRUE,
                                !.status_message = Some(Msg("Deleted mead", sel[1].name))]
                 ELSE b
        ELSE a

\* App::handle_mead_list_key
handle_mead_list_key(a, k, oc) ==
    IF k.code = "Esc" THEN [a EXCEPT !.current_view = MainMenu]
    ELSE IF k.code = "Up" \/ IsChar(k, "k")
    THEN [a EXCEPT !.mead_list = MeadListView_previous(a.mead_list)]
    ELSE IF k.code = "Down" \/ IsChar(k, "j")
    THEN [a EXCEPT !.mead_list = MeadListView_next(a.mead_list)]
    ELSE IF k.code = "Enter"
    THEN LET sel == get_selected(a.mead_list)
         IN  IF sel # None
             THEN [a EXCEPT !.mead_detail.needs_refresh = TRUE,
                            !.current_view = MeadDetail(sel[1].id)]
             ELSE a
    ELSE IF IsChar(k, "d") THEN delete_selected_mead(a, oc)
    ELSE a

\* A plausible slip: the form is left whether or not the store accepted.
save_new_mead_leaves_on_error(a, oc) ==
    LET mead == build_mead(a.new_mead)
        b == Issue(a, "create_mead", 0, oc, create_mead(a.db, mead, oc))
    IN  [b EXCEPT !.status_message = IF oc = 0 THEN Some(Msg("Created mead", mead.name))
                                     ELSE Some(Msg("Error", <<>>)),
                  !.current_view = MainMenu]

\* App::handle_new_mead_key, Enter on the submit slot: "Save the mead".
save_new_mead(a, oc) ==
    LET mead == build_mead(a.new_mead)
        b == Issue(a, "create_mead", 0, oc, create_mead(a.db, mead, oc))
    IN  IF oc = 0
        THEN [b EXCEPT !.status_message = Some(Msg("Created mead", mead.name)),
                       !.current_view = MainMenu]
        ELSE [b EXCEPT !.status_message = Some(Msg("Error", <<>>))]

\* App::handle_new_mead_key
handle_new_mead_key(a, k, oc) ==
    LET v == a.new_mead
    IN  IF k.code = "Esc"
        THEN IF v.editing THEN [a EXCEPT !.new_mead = NewMead_cancel_edit(v)]
             ELSE [a EXCEPT !.current_view = MainMenu]
        ELSE IF k.code = "Tab"
        THEN IF k.shift THEN [a EXCEPT !.new_mead = NewMead_previous_field(v)]
             ELSE [a EXCEPT !.new_mead = NewMead_next_field(v)]
        ELSE IF k.code = "Up" /\ ~v.editing
        THEN [a EXCEPT !.new_mead = NewMead_previous_field(v)]
        ELSE IF k.code = "Down" /\ ~v.editing
        THEN [a EXCEPT !.new_mead = NewMead_next_field(v)]
        ELSE IF k.code = "Enter"
        THEN IF NewMead_is_on_submit(v) THEN save_new_mead(a, oc)
             ELSE [a EXCEPT !.new_mead = NewMead_next_field(v)]
        ELSE IF k.code = "Char"
        THEN IF ~NewMead_is_on_submit(v)
             THEN LET w == IF ~v.editing THEN NewMead_toggle_edit(v) ELSE v
                  IN  [a EXCEPT !.new_mead = NewMead_insert_char(w, k.ch)]
             ELSE a
        ELSE IF k.code = "Backspace"
        THEN IF ~NewMead_is_on_submit(v)
             THEN LET w == IF ~v.editing THEN NewMead_toggle_edit(v) ELSE v
                  IN  [a EXCEPT !.new_mead = NewMead_delete_char(w)]
             ELSE a
        ELSE IF k.code = "Delete"
        THEN IF v.editing THEN [a EXCEPT !.new_mead = NewMead_delete_char_forward(v)] ELSE a
        ELSE IF k.code = "Left"
        THEN IF v.editing THEN [a EXCEPT !.new_mead = NewMead_move_cursor_left(v)] ELSE a
        ELSE IF k.code = "Right"
        THEN IF v.editing THEN [a EXCEPT !.new_mead = NewMead_move_cursor_right(v)] ELSE a
        ELSE IF k.code = "Home"
        THEN IF v.editing THEN [a EXCEPT !.new_mead = NewMead_move_cursor_start(v)] ELSE a
        ELSE IF k.code = "End"
        THEN IF v.editing THEN [a EXCEPT !.new_mead = NewMead_move_cursor_end(v)] ELSE a
        ELSE a

\* App::handle_mead_detail_key
handle_mead_detail_key(a, k, oc) ==
    LET v == a.mead_detail
        in_input_mode == Detail_is_editing(v) \/ v.show_log_input \/ v.show_ingredient_input
    IN  IF k.code = "Esc"
        THEN IF Detail_is_editing(v) THEN [a EXCEPT !.mead_detail = Detail_cancel_edit(v)]
             ELSE IF v.show_log_input \/ v.show_ingredient_input
             THEN [a EXCEPT !.mead_detail.show_log_input = FALSE,
                            !.mead_detail.show_ingredient_input = FALSE]
             ELSE [a EXCEPT !.mead_list.needs_refresh = TRUE, !.current_view = MeadList]
        ELSE IF k.code = "Tab"
        THEN IF k.shift THEN [a EXCEPT !.mead_detail = Detail_previous_field(v)]
             ELSE [a EXCEPT !.mead_detail = Detail_next_field(v)]
        ELSE IF k.code = "Up" /\ ~in_input_mode
        THEN [a EXCEPT !.mead_detail = Detail_previous_field(v)]
        ELSE IF k.code = "Down" /\ ~in_input_mode
        THEN [a EXCEPT !.mead_detail = Detail_next_field(v)]
        ELSE IF IsChar(k, "l") /\ ~in_input_mode
        THEN [a EXCEPT !.mead_detail.show_log_input = TRUE,
                       !.mead_detail.log_input = set_focused(v.log_input, TRUE)]
        ELSE IF IsChar(k, "i") /\ ~in_input_mode
        THEN [a EXCEPT !.mead_detail.show_ingredient_input = TRUE,
                       !.mead_detail.ingredient_name_input = set_focused(v.ingredient_name_input, TRUE)]
        ELSE IF IsChar(k, "s") /\ ~in_input_mode
        THEN LET u == get_updated_mead(v)
             IN  IF u # None
                 THEN LET b == Issue(a, "update_mead", u[1].id, oc, update_mead(a.db, u[1], oc))
                      IN  IF oc = 0
                          THEN [b EXCEPT !.status_message = Some(Msg("Mead updated!", <<>>)),
                                         !.mead_detail.needs_refresh = TRUE]
                          ELSE b
                 ELSE a
        ELSE IF k.code = "Enter"
        THEN IF v.show_log_input
             THEN IF v.mead # None
                  THEN LET entry == [LogEntry_default EXCEPT
                                        !.mead_id = v.mead[1].id,
                                        !.entry_text = get_value(v.log_input)]
                       IN  IF entry.entry_text # <<>>
                           THEN LET b == Issue(a, "create_log_entry", entry.mead_id, oc,
                                               create_log_entry(a.db, entry, oc))
                                IN  IF oc = 0
                                    THEN [b EXCEPT !.mead_detail.log_input = clear(v.log_input),
                                                   !.mead_detail.show_log_input = FALSE,
                                                   !.mead_detail.needs_refresh = TRUE]
                                    ELSE b
                           ELSE a
                  ELSE a
             ELSE IF v.show_ingredient_input
             THEN IF v.mead # None
                  THEN LET ingredient == [Ingredient_default EXCEPT
                                            !.mead_id = v.mead[1].id,
                                            !.name = get_value(v.ingredient_name_input),
                                            !.amount = unwrap_or(get_f64(v.ingredient_amount_input), 0),
                                            !.unit = get_value(v.ingredient_unit_input),
                                            !.ingredient_type = v.selected_ingredient_type]
                       IN  IF ingredient.name # <<>>
                           THEN LET b == Issue(a, "create_ingredient", ingredient.mead_id, oc,
                                               create_ingredient(a.db, ingredient, oc))
                                IN  IF oc = 0
                                    THEN [b EXCEPT
                                            !.mead_detail =
                                                [clear_ingredient_inputs(v) EXCEPT
                                                    !.show_ingredient_input = FALSE,
                                                    !.needs_refresh = TRUE]]
                                    ELSE b
                           ELSE a
                  ELSE a
             ELSE [a EXCEPT !.mead_detail = Detail_toggle_edit(v)]
        ELSE IF k.code = "Char"
        THEN IF v.show_log_input \/ v.show_ingredient_input
             THEN [a EXCEPT !.mead_detail = Detail_insert_char(v, k.ch)]
             ELSE IF ~in_input_mode
             THEN LET w == Detail_toggle_edit(v)
                  IN  IF Detail_is_editing(w)
                      THEN [a EXCEPT !.mead_detail = Detail_insert_char(w, k.ch)]
                      ELSE [a EXCEPT !.mead_detail = w]
             ELSE [a EXCEPT !.mead_detail = Detail_insert_char(v, k.ch)]
        ELSE IF k.code = "Backspace"
        THEN IF v.show_log_input \/ v.show_ingredient_input
             THEN [a EXCEPT !.mead_detail = Detail_delete_char(v)]
             ELSE IF ~Detail_is_editing(v)
             THEN LET w == Detail_toggle_edit(v)
                  IN  IF Detail_is_editing(w)
                      THEN [a EXCEPT !.mead_detail = Detail_delete_char(w)]
                      ELSE [a EXCEPT !.mead_detail = w]
             ELSE [a EXCEPT !.mead_detail = Detail_delete_char(v)]
        ELSE IF k.code = "Delete" /\ in_input_mode
        THEN [a EXCEPT !.mead_detail = Detail_delete_char_forward(v)]
        ELSE IF k.code = "Left" /\ in_input_mode
        THEN [a EXCEPT !.mead_detail = Detail_move_cursor_left(v)]
        ELSE IF k.code = "Right" /\ in_input_mode
        THEN [a EXCEPT !.mead_detail = Detail_move_cursor_right(v)]
        ELSE a

\* A plausible slip: the quit key is honoured in every view.
route_key_quit_anywhere(a, k, oc) ==
    IF IsChar(k, "q") THEN handle_main_menu_key(a, k)
    ELSE CASE a.current_view.tag = "MainMenu" -> handle_main_menu_key(a, k)
           [] a.current_view.tag = "MeadList" -> handle_mead_list_key(a, k, oc)
           [] a.current_view.tag = "NewMead" -> handle_new_mead_key(a, k, oc)
           [] a.current_view.tag = "MeadDetail" -> handle_mead_detail_key(a, k, oc)

\* The match of App::handle_key_event: the handler of the current view.
route_key(a, k, oc) ==
    CASE a.current_view.tag = "MainMenu" -> handle_main_menu_key(a, k)
      [] a.current_view.tag = "MeadList" -> handle_mead_list_key(a, k, oc)
      [] a.current_view.tag = "NewMead" -> handle_new_mead_key(a, k, oc)
      [] a.current_view.tag = "MeadDetail" -> handle_mead_detail_key(a, k, oc)

\* A plausible slip: the status message is not cleared.
handle_key_event_keeps_status(a, k, oc) == route_key(a, k, oc)

\* App::handle_key_event: clears the status message, then routes the key.
handle_key_event(a, k, oc) == route_key([a EXCEPT !.status_message = None], k, oc)

\* A variant that handles a key event of any kind.
handle_events_any_kind(a, e, oc) == handle_key_event(a, e, oc)

\* App::handle_events: only a key event of kind Press reaches the handlers.
handle_events(a, e, oc) == IF e.kind = "Press" THEN handle_key_event(a, e, oc) ELSE a

\* A variant that renders without reloading.
draw_without_reload(a, r) == a

\* App::draw: the reload of a stale List or Detail.  r.all, r.one,
\* r.ingredients and r.logs say whether that read returns Ok.
draw(a, r) ==
    CASE a.current_view.tag = "MeadList" ->
            IF a.mead_list.needs_refresh
            THEN LET b == [a EXCEPT !.calls = a.calls \o <<Call("get_all_meads", 0, r.all)>>]
                 IN  IF r.all
                     THEN [b EXCEPT !.mead_list = set_meads(a.mead_list, get_all_meads(a.db))]
                     ELSE b
            ELSE a
      [] a.current_view.tag = "MeadDetail" ->
            IF a.mead_detail.needs_refresh
            THEN LET id == a.current_view.id
                     got == IF r.one THEN get_mead(a.db, id) ELSE None
                     b == [a EXCEPT !.calls = a.calls \o <<Call("get_mead", id, r.one)>>]
                 IN  IF got # None
                     THEN LET ingredients == IF r.ingredients THEN get_ingredients(a.db, id) ELSE <<>>
                              log_entries == IF r.logs THEN get_log_entries(a.db, id) ELSE <<>>
                          IN  [b EXCEPT
                                 !.calls = b.calls \o <<Call("get_ingredients", id, r.ingredients),
                                                        Call("get_log_entries", id, r.logs)>>,
                                 !.mead_detail = set_mead(a.mead_detail, got[1], ingredients, log_entries)]
                     ELSE b
            ELSE a
      [] OTHER -> a

\* ------------------------------------------------------- the run loop
DetailParentEditors == <<"name_input", "current_gravity_input", "yan_added_input", "notes_input">>
DetailIngredientEditors == <<"ingredient_name_input", "ingredient_amount_input", "ingredient_unit_input">>
DetailEditors == DetailParentEditors \o <<"log_input">> \o DetailIngredientEditors

\* A String::insert or String::remove assertion failed in some editor: the
\* process aborts.
Panicked(a) ==
    \/ \E i \in 1..Len(NewMeadEditors) : a.new_mead[NewMeadEditors[i]].panic
    \/ \E i \in 1..Len(DetailEditors) : a.mead_detail[DetailEditors[i]].panic

\* The keys pressed in each view: every key code its handler matches, F1 for
\* the codes it does not, and the characters that are commands of the view
\* together with 'q' (one byte) and 'é' (two bytes) for every other one.
CommonKeys == {Key("Enter"), Key("Esc"), Key("Up"), Key("Down"), Key("F1"), Char("q")}
EditKeys ==
    {Key("Tab"), KeyEvent("Tab", "", TRUE), Key("BackTab"), Key("Backspace"),
     Key("Delete"), Key("Left"), Key("Right"), Key("Home"), Key("End"), Char("é")}

KeysIn(view) ==
    CASE view.tag = "MainMenu" -> CommonKeys \cup {Char("j"), Char("k")}
      [] view.tag = "MeadList" -> CommonKeys \cup {Char("j"), Char("k"), Char("d")}
      [] view.tag = "NewMead" -> CommonKeys \cup EditKeys
      [] view.tag = "MeadDetail" -> CommonKeys \cup EditKeys \cup {Char("l"), Char("i"), Char("s")}

\* The events handle_events drops: key release, key repeat, and events that
\* are no key event (resize, mouse, focus, paste).
DroppedEvents ==
    {[kind |-> "Release", code |-> "Enter", ch |-> "", shift |-> FALSE],
     [kind |-> "Repeat", code |-> "Char", ch |-> "q", shift |-> FALSE],
     [kind |-> "Other", code |-> "", ch |-> "", shift |-> FALSE]}

NoEvent == [kind |-> "None", code |-> "", ch |-> "", shift |-> FALSE]

\* The outcomes of the store call a key may lead to: only Enter, 's' and 'd'
\* reach a call, and only delete_mead has more than one statement to fail at.
StoreOutcomes(k) ==
    IF IsChar(k, "d") THEN 0..3
    ELSE IF k.code = "Enter" \/ IsChar(k, "s") THEN 0..1
    ELSE {0}

\* The outcomes of the reads of a render step: none outside List and Detail.
ReadOutcomes(view) ==
    CASE view.tag = "MeadList" ->
            [all : BOOLEAN, one : {TRUE}, ingredients : {TRUE}, logs : {TRUE}]
      [] view.tag = "MeadDetail" ->
            [all : {TRUE}, one : BOOLEAN, ingredients : BOOLEAN, logs : BOOLEAN]
      [] OTHER -> [all : {TRUE}, one : {TRUE}, ingredients : {TRUE}, logs : {TRUE}]

\* The rows a store holds when the program starts.
InitMead(i) ==
    [Mead_default EXCEPT
        !.id = i,
        !.name = IF i % 2 = 1 THEN <<"m">> ELSE <<"é">>,
        !.status = IF i % 2 = 1 THEN "Primary" ELSE "Finished",
        !.current_gravity = IF i % 2 = 1 THEN 1100 ELSE 1005,
        !.yan_added = IF i % 2 = 1 THEN 0 ELSE 50000]

InitStore(n, kids) ==
    [meads |-> [i \in 1..n |-> InitMead(n + 1 - i)],
     ingredients |-> IF kids
                     THEN <<[Ingredient_default EXCEPT !.id = 1, !.mead_id = 1,
                                                       !.name = <<"h">>, !.amount = 2000]>>
                     ELSE <<>>,
     log_entries |-> IF kids
                     THEN <<[LogEntry_default EXCEPT !.id = 1, !.mead_id = 1,
                                                     !.entry_text = <<"r">>]>>
                     ELSE <<>>,
     next_mead_id |-> n + 1,
     next_ingredient_id |-> IF kids THEN 2 ELSE 1,
     next_log_id |-> IF kids THEN 2 ELSE 1]

\* App::new
Init ==
    /\ current_view = MainMenu
    /\ should_exit = FALSE
    /\ main_menu = MainMenuView_new
    /\ mead_list = MeadListView_new
    /\ new_mead = NewMeadView_new
    /\ mead_detail = MeadDetailView_new
    /\ status_message = None
    /\ \E n \in 0..MaxInitMeads, kids \in BOOLEAN :
            /\ kids => n >= 1
            /\ db = InitStore(n, kids)
    /\ pc = "draw"
    /\ key = NoEvent
    /\ calls = <<>>
    /\ keys_read = 0
    /\ field = InputField_new

Commit(a) ==
    /\ current_view' = a.current_view
    /\ should_exit' = a.should_exit
    /\ main_menu' = a.main_menu
    /\ mead_list' = a.mead_list
    /\ new_mead' = a.new_mead
    /\ mead_detail' = a.mead_detail
    /\ status_message' = a.status_message
    /\ db' = a.db
    /\ calls' = a.calls

\* terminal.draw(|frame| self.draw(frame))
Draw ==
    /\ pc = "draw"
    /\ \E r \in ReadOutcomes(current_view) : Commit(draw(App, r))
    /\ pc' = "events"
    /\ key' = NoEvent
    /\ UNCHANGED <<keys_read, field>>

\* handle_events on a key press, then the loop's test of should_exit.
KeyPress ==
    /\ pc = "events"
    /\ keys_read < MaxKeys
    /\ \E k \in KeysIn(current_view) : \E oc \in StoreOutcomes(k) :
          LET a == handle_key_event(App, k, oc)
          IN  /\ Commit(a)
              /\ key' = k
              /\ pc' = IF Panicked(a) THEN "panicked"
                       ELSE IF a.should_exit THEN "exited" ELSE "draw"
    /\ keys_read' = keys_read + 1
    /\ UNCHANGED field

\* handle_events on any other event.
DroppedEvent ==
    /\ pc = "events"
    /\ \E e \in DroppedEvents :
          /\ Commit(handle_events(App, e, 0))
          /\ key' = e
    /\ pc' = "draw"
    /\ UNCHANGED <<keys_read, field>>

Next == Draw \/ KeyPress \/ DroppedEvent

Spec == Init /\ [][Next]_vars

\* The loop under its scheduling: a render that is due is made, and input
\* events keep arriving (events of no interest to the handlers at least,
\* once the bounded number of key presses is used up).
SpecLive == Spec /\ WF_vars(Draw) /\ WF_vars(DroppedEvent)

\* ------------------------------------------ runs of command keys
\* The keys that change the view, open, submit or cancel a form or sub-form,
\* or reach a store call, with one character to type: longer runs than Spec
\* explores, over fewer keys.
CmdKeysIn(view) ==
    CASE view.tag = "MainMenu" -> {Key("Enter"), Key("Down")}
      [] view.tag = "MeadList" -> {Key("Enter"), Key("Esc"), Char("d")}
      [] view.tag = "NewMead" ->
            {Key("Enter"), Key("Esc"), KeyEvent("Tab", "", TRUE), Char("é")}
      [] view.tag = "MeadDetail" ->
            {Key("Enter"), Key("Esc"), Char("l"), Char("i"), Char("s"), Char("é")}

\* handle_events on a press of a command key.
CmdKeyPress ==
    /\ pc = "events"
    /\ keys_read < MaxCmdKeys
    /\ \E k \in CmdKeysIn(current_view) : \E oc \in StoreOutcomes(k) :
          LET a == handle_key_event(App, k, oc)
          IN  /\ Commit(a)
              /\ key' = k
              /\ pc' = IF Panicked(a) THEN "panicked"
                       ELSE IF a.should_exit THEN "exited" ELSE "draw"
    /\ keys_read' = keys_read + 1
    /\ UNCHANGED field

NextCmd == Draw \/ CmdKeyPress

SpecCmd == Init /\ [][NextCmd]_vars

\* ------------------------------------------- submitting typed numbers
\* The texts a numeric editor holds when its form is submitted: nothing,
\* text that is no number, a lone point, an integer, a decimal.
NumericTexts == {<<>>, <<"q">>, <<"é">>, <<".">>, <<"2">>, <<"1", ".", "5">>}

\* The numeric editors of NewMeadView.
NewMeadNumeric == <<"honey_amount", "target_abv", "starting_gravity", "volume_gallons", "yan_required">>

\* App::new over a given store, as a record.
AppNew(d) ==
    [current_view |-> MainMenu, should_exit |-> FALSE,
     main_menu |-> MainMenuView_new, mead_list |-> MeadListView_new,
     new_mead |-> NewMeadView_new, mead_detail |-> MeadDetailView_new,
     status_message |-> None, db |-> d, calls |-> <<>>]

\* One turn of the loop of App::run with every store call accepted: a
\* key press, or a render.
Pressed(a, k) == [handle_key_event(a, k, 0) EXCEPT !.calls = <<>>]
Rendered(a) ==
    [draw(a, [all |-> TRUE, one |-> TRUE, ingredients |-> TRUE, logs |-> TRUE])
        EXCEPT !.calls = <<>>]

\* The new-record form on its submit slot: Down, Enter, Shift-Tab.
FormAtSubmit ==
    Pressed(Pressed(Pressed(Rendered(AppNew(InitStore(1, FALSE))), Key("Down")),
                    Key("Enter")),
            KeyEvent("Tab", "", TRUE))

\* The detail screen of record 1, loaded: Enter, Enter.
DetailLoaded ==
    Rendered(Pressed(Rendered(Pressed(Rendered(AppNew(InitStore(1, FALSE))), Key("Enter"))),
                     Key("Enter")))

\* Its ingredient sub-form: 'i'.
IngredientOpen == Pressed(DetailLoaded, Char("i"))

\* The three forms with their numeric editors typed over: the new-record
\* form with every text editor filled in, the ingredient form with or
\* without a name.
SubmitStarts ==
    {[FormAtSubmit EXCEPT
        !.new_mead = [e \in DOMAIN @ |->
            IF \E i \in 1..5 : NewMeadNumeric[i] = e
            THEN set_value(@[e], t[CHOOSE i \in 1..5 : NewMeadNumeric[i] = e])
            ELSE CASE e = "name" -> set_value(@[e], <<"é", "m">>)
                   [] e = "honey_type" -> set_value(@[e], <<"h">>)
                   [] e = "yeast_strain" -> set_value(@[e], <<"y">>)
                   [] e = "notes" -> set_value(@[e], <<"n">>)
                   [] OTHER -> @[e]]] : t \in [1..5 -> NumericTexts]}
    \cup
    {[DetailLoaded EXCEPT
        !.mead_detail.current_gravity_input = set_value(@, t[1]),
        !.mead_detail.yan_added_input = set_value(@, t[2])] : t \in [1..2 -> NumericTexts]}
    \cup
    {[IngredientOpen EXCEPT
        !.mead_detail.ingredient_name_input = set_value(@, n),
        !.mead_detail.ingredient_amount_input = set_value(@, t)] :
            n \in {<<>>, <<"h">>}, t \in NumericTexts}

InitSubmit ==
    /\ \E a \in SubmitStarts :
          /\ current_view = a.current_view
          /\ should_exit = a.should_exit
          /\ main_menu = a.main_menu
          /\ mead_list = a.mead_list
          /\ new_mead = a.new_mead
          /\ mead_detail = a.mead_detail
          /\ status_message = a.status_message
          /\ db = a.db
    /\ pc = "events"
    /\ key = NoEvent
    /\ calls = <<>>
    /\ keys_read = 0
    /\ field = InputField_new

\* The keys that submit a form and lead from the menu to a record.
SubmitKeysIn(view) ==
    CASE view.tag = "NewMead" -> {Key("Enter")}
      [] view.tag = "MeadDetail" -> {Key("Enter"), Char("s")}
      [] view.tag = "MainMenu" -> {Key("Enter"), Key("Up")}
      [] view.tag = "MeadList" -> {Key("Enter")}

\* handle_events on a press of a submit key.
SubmitKeyPress ==
    /\ pc = "events"
    /\ keys_read < MaxSubmitKeys
    /\ \E k \in SubmitKeysIn(current_view) : \E oc \in StoreOutcomes(k) :
          LET a == handle_key_event(App, k, oc)
          IN  /\ Commit(a)
              /\ key' = k
              /\ pc' = IF Panicked(a) THEN "panicked"
                       ELSE IF a.should_exit THEN "exited" ELSE "draw"
    /\ keys_read' = keys_read + 1
    /\ UNCHANGED field

NextSubmit == Draw \/ SubmitKeyPress

SpecSubmit == InitSubmit /\ [][NextSubmit]_vars

\* -------------------------------------- runs in the ingredient sub-form
\* The keys that move within, close, reopen and submit the sub-form, and a
\* character to type.
IngredientKeys ==
    {Key("Tab"), KeyEvent("Tab", "", TRUE), Key("Esc"), Key("Enter"), Char("i"), Char("h")}

\* The program waits for a key with the ingredient sub-form of record 1
\* just opened.
InitIngredient ==
    /\ current_view = IngredientOpen.current_view
    /\ should_exit = IngredientOpen.should_exit
    /\ main_menu = IngredientOpen.main_menu
    /\ mead_list = IngredientOpen.mead_list
    /\ new_mead = IngredientOpen.new_mead
    /\ mead_detail = IngredientOpen.mead_detail
    /\ status_message = IngredientOpen.status_message
    /\ db = IngredientOpen.db
    /\ pc = "events"
    /\ key = NoEvent
    /\ calls = <<>>
    /\ keys_read = 0
    /\ field = InputField_new

\* handle_events on a press of one of these keys.
IngredientKeyPress ==
    /\ pc = "events"
    /\ keys_read < MaxIngredientKeys
    /\ \E k \in IngredientKeys : \E oc \in StoreOutcomes(k) :
          LET a == handle_key_event(App, k, oc)
          IN  /\ Commit(a)
              /\ key' = k
              /\ pc' = IF Panicked(a) THEN "panicked"
                       ELSE IF a.should_exit THEN "exited" ELSE "draw"
    /\ keys_read' = keys_read + 1
    /\ UNCHANGED field

NextIngredient == Draw \/ IngredientKeyPress

SpecIngredient == InitIngredient /\ [][NextIngredient]_vars

\* ------------------------------------------- one InputField on its own
\* Every operation of InputField applied in any order to one editor.
FieldChars == {"a", "é"}
FieldValues == {<<>>, <<"a">>, <<"é">>, <<"a", "é">>, <<"o", "z">>}

InitField ==
    /\ current_view = MainMenu
    /\ should_exit = FALSE
    /\ main_menu = MainMenuView_new
    /\ mead_list = MeadListView_new
    /\ new_mead = NewMeadView_new
    /\ mead_detail = MeadDetailView_new
    /\ status_message = None
    /\ db = InitStore(0, FALSE)
    /\ pc = "field_new"
    /\ key = NoEvent
    /\ calls = <<>>
    /\ keys_read = 0
    /\ field = InputField_new

FieldLive == pc \in {"field_new", "field"}

FieldStep(f) ==
    /\ field' = f
    /\ pc' = IF f.panic THEN "panicked" ELSE "field"
    /\ UNCHANGED <<current_view, should_exit, main_menu, mead_list, new_mead,
                   mead_detail, status_message, db, key, calls, keys_read>>

FWithValue == pc = "field_new" /\ \E v \in FieldValues : FieldStep(with_value(field, v))
FInsertChar ==
    /\ FieldLive
    /\ ByteLen(field.value) < MaxFieldBytes
    /\ \E c \in FieldChars : FieldStep(insert_char(field, c))
FDeleteChar == FieldLive /\ FieldStep(delete_char(field))
FDeleteCharForward == FieldLive /\ FieldStep(delete_char_forward(field))
FMoveCursorLeft == FieldLive /\ FieldStep(move_cursor_left(field))
FMoveCursorRight == FieldLive /\ FieldStep(move_cursor_right(field))
FMoveCursorStart == FieldLive /\ FieldStep(move_cursor_start(field))
FMoveCursorEnd == FieldLive /\ FieldStep(move_cursor_end(field))
FClear == FieldLive /\ FieldStep(clear(field))
FSetValue == FieldLive /\ \E v \in FieldValues : FieldStep(set_value(field, v))
FSetFocused == FieldLive /\ \E b \in BOOLEAN : FieldStep(set_focused(field, b))

FieldNext ==
    \/ FWithValue \/ FInsertChar \/ FDeleteChar \/ FDeleteCharForward
    \/ FMoveCursorLeft \/ FMoveCursorRight \/ FMoveCursorStart \/ FMoveCursorEnd
    \/ FClear \/ FSetValue \/ FSetFocused

SpecField == InitField /\ [][FieldNext]_vars

\* ------------------------------------- the field lists on their own
\* The navigation and cycling operations of the three views applied in any
\* order the key handlers allow, with no bound on their number, to one view
\* of a run (pc names it): every index of every field list, every status and
\* every category is reached.
NavLive == pc \in {"nav_menu", "nav_form", "nav_detail"}

InitNav ==
    /\ current_view = MainMenu
    /\ should_exit = FALSE
    /\ main_menu = MainMenuView_new
    /\ mead_list = MeadListView_new
    /\ new_mead = NewMeadView_new
    /\ mead_detail = MeadDetailView_new
    /\ status_message = None
    /\ db = InitStore(0, FALSE)
    /\ NavLive
    /\ key = NoEvent
    /\ calls = <<>>
    /\ keys_read = 0
    /\ field = InputField_new

\* The operation applied last, kept in key.
NavOp(name) == [kind |-> "Call", code |-> name, ch |-> "", shift |-> FALSE]

NavMenu(name, m) ==
    /\ pc = "nav_menu"
    /\ main_menu' = m
    /\ key' = NavOp(name)
    /\ UNCHANGED <<current_view, should_exit, mead_list, new_mead, mead_detail,
                   status_message, db, pc, calls, keys_read, field>>

NavForm(name, v) ==
    /\ pc = "nav_form"
    /\ new_mead' = v
    /\ key' = NavOp(name)
    /\ UNCHANGED <<current_view, should_exit, main_menu, mead_list, mead_detail,
                   status_message, db, pc, calls, keys_read, field>>

NavDetail(name, v) ==
    /\ pc = "nav_detail"
    /\ mead_detail' = v
    /\ key' = NavOp(name)
    /\ UNCHANGED <<current_view, should_exit, main_menu, mead_list, new_mead,
                   status_message, db, pc, calls, keys_read, field>>

\* in_input_mode of App::handle_mead_detail_key
in_input_mode(v) == Detail_is_editing(v) \/ v.show_log_input \/ v.show_ingredient_input

NavMenuNext == NavMenu("MainMenuView::next", MainMenuView_next(main_menu))
NavMenuPrevious == NavMenu("MainMenuView::previous", MainMenuView_previous(main_menu))
NavFormNext == NavForm("NewMeadView::next_field", NewMead_next_field(new_mead))
NavFormPrevious == NavForm("NewMeadView::previous_field", NewMead_previous_field(new_mead))
NavDetailNext == NavDetail("MeadDetailView::next_field", Detail_next_field(mead_detail))
NavDetailPrevious ==
    NavDetail("MeadDetailView::previous_field", Detail_previous_field(mead_detail))
\* Enter with no sub-form open
NavDetailToggleEdit ==
    /\ ~mead_detail.show_log_input /\ ~mead_detail.show_ingredient_input
    /\ NavDetail("MeadDetailView::toggle_edit", Detail_toggle_edit(mead_detail))
\* Left and Right in input mode
NavDetailLeft ==
    /\ in_input_mode(mead_detail)
    /\ NavDetail("MeadDetailView::move_cursor_left", Detail_move_cursor_left(mead_detail))
NavDetailRight ==
    /\ in_input_mode(mead_detail)
    /\ NavDetail("MeadDetailView::move_cursor_right", Detail_move_cursor_right(mead_detail))
\* 'l' and 'i' outside input mode
NavOpenLog ==
    /\ ~in_input_mode(mead_detail)
    /\ NavDetail("open_log",
                 [mead_detail EXCEPT !.show_log_input = TRUE,
                                     !.log_input = set_focused(mead_detail.log_input, TRUE)])
NavOpenIngredient ==
    /\ ~in_input_mode(mead_detail)
    /\ NavDetail("open_ingredient",
                 [mead_detail EXCEPT
                     !.show_ingredient_input = TRUE,
                     !.ingredient_name_input =
                         set_focused(mead_detail.ingredient_name_input, TRUE)])
\* Esc in a sub-form
NavCloseSubForm ==
    /\ ~Detail_is_editing(mead_detail)
    /\ mead_detail.show_log_input \/ mead_detail.show_ingredient_input
    /\ NavDetail("close_sub_form",
                 [mead_detail EXCEPT !.show_log_input = FALSE,
                                     !.show_ingredient_input = FALSE])

NavNext ==
    \/ NavMenuNext \/ NavMenuPrevious \/ NavFormNext \/ NavFormPrevious
    \/ NavDetailNext \/ NavDetailPrevious \/ NavDetailToggleEdit
    \/ NavDetailLeft \/ NavDetailRight
    \/ NavOpenLog \/ NavOpenIngredient \/ NavCloseSubForm

SpecNav == InitNav /\ [][NavNext]_vars

\* ============================================================= claims

\* C2: after every InputField operation the cursor, counted in characters,
\* is within 0 .. (number of characters of the buffer).
C2_CursorWithinChars ==
    (pc \in {"field_new", "field"}) => (0 <= field.cursor /\ field.cursor <= Len(field.value))

\* C2, what the code keeps instead: the cursor is a byte offset within the
\* buffer's byte length (while no operation has aborted).
C2_CursorWithinBytes ==
    (pc \in {"field_new", "field"}) => (0 <= field.cursor /\ field.cursor <= ByteLen(field.value))

\* The step is the handling of a key press / the render step of the loop.
KeyStep == pc = "events" /\ keys_read' = keys_read + 1
DrawStep == pc = "draw" /\ pc' = "events"

FocusedIn(v, editors) == {i \in 1..Len(editors) : v[editors[i]].focused}

\* C1: the active view changes only in a key-press step and only along the
\* edges Menu->List (Enter, option 0), Menu->NewMead (Enter, option 1),
\* List->Menu (Esc), List->Detail(id of the selected row) (Enter),
\* NewMead->Menu (Esc when not editing, or Enter on the submit slot with one
\* successful create), Detail->List (Esc, no sub-form, not editing).
C1_ViewEdges ==
    [][current_view' # current_view =>
        /\ KeyStep
        /\ key'.kind = "Press"
        /\ \/ /\ current_view = MainMenu /\ current_view' = MeadList
              /\ key'.code = "Enter" /\ main_menu.selected = 0
           \/ /\ current_view = MainMenu /\ current_view' = NewMead
              /\ key'.code = "Enter" /\ main_menu.selected = 1
           \/ /\ current_view = MeadList /\ current_view' = MainMenu
              /\ key'.code = "Esc"
           \/ /\ current_view = MeadList /\ key'.code = "Enter"
              /\ mead_list.selected < Len(mead_list.meads)
              /\ current_view' = MeadDetail(mead_list.meads[mead_list.selected + 1].id)
           \/ /\ current_view = NewMead /\ current_view' = MainMenu
              /\ \/ key'.code = "Esc" /\ ~new_mead.editing
                 \/ /\ key'.code = "Enter" /\ new_mead.current_field = 10
                    /\ calls' = <<Call("create_mead", 0, TRUE)>>
           \/ /\ current_view.tag = "MeadDetail" /\ current_view' = MeadList
              /\ key'.code = "Esc"
              /\ ~mead_detail.editing
              /\ ~mead_detail.show_log_input /\ ~mead_detail.show_ingredient_input
    ]_vars

\* C1 witness: Enter on a selected row has opened that row's Detail.
C1_Witness ==
    /\ current_view.tag = "MeadDetail" /\ key.code = "Enter" /\ pc = "draw"
    /\ \E i \in 1..Len(mead_list.meads) : mead_list.meads[i].id = current_view.id

\* C3: among the editors of the active screen at most one is focused.
C3_AtMostOneFocused ==
    /\ current_view = NewMead => Cardinality(FocusedIn(new_mead, NewMeadEditors)) <= 1
    /\ current_view.tag = "MeadDetail" => Cardinality(FocusedIn(mead_detail, DetailEditors)) <= 1

\* The navigation steps: next_field/previous_field moved the index of the
\* form, of the detail form, or of the ingredient sub-form.
NavStepForm ==
    /\ KeyStep /\ current_view = NewMead /\ current_view' = NewMead
    /\ new_mead'.current_field # new_mead.current_field
NavStepDetail ==
    /\ KeyStep /\ current_view.tag = "MeadDetail"
    /\ mead_detail'.current_field # mead_detail.current_field
NavStepIngredient ==
    /\ KeyStep /\ current_view.tag = "MeadDetail"
    /\ mead_detail.show_ingredient_input /\ key'.code = "Tab"

C5_EditingOnlyOnTextSlot ==
    /\ new_mead.editing => new_mead.current_field \in 0..9
    /\ mead_detail.editing => mead_detail.current_field \in {0, 2, 3, 4}
    /\ (mead_detail.show_ingredient_input /\ mead_detail.ingredient_field = 3)
            => ~mead_detail.editing

\* C5 witness: the detail form is editing a text slot reached by navigation.
C5_Witness ==
    /\ current_view.tag = "MeadDetail" /\ mead_detail.editing
    /\ mead_detail.current_field = 2

\* ------------------------------------------------------------ C6
AllOk(cs) == \A i \in 1..Len(cs) : cs[i].ok
SomeFailed(cs) == \E i \in 1..Len(cs) : ~cs[i].ok

\* C6: in the render step of a List or Detail screen with needs_refresh set,
\* a read that succeeds replaces the snapshot by the store's result and clears
\* needs_refresh; if any part of the read fails (fetch-all, fetch-one, the
\* ingredient fetch or the log-entry fetch) needs_refresh stays set and the
\* previous snapshot is unchanged; with needs_refresh clear no read is issued.
C6_ReloadProtocol ==
    [][DrawStep =>
        /\ current_view.tag = "MeadList" =>
              /\ ~mead_list.needs_refresh => calls' = <<>>
              /\ mead_list.needs_refresh /\ calls' # <<>> /\ AllOk(calls') =>
                    /\ mead_list'.meads = get_all_meads(db)
                    /\ ~mead_list'.needs_refresh
              /\ mead_list.needs_refresh /\ SomeFailed(calls') => mead_list' = mead_list
        /\ current_view.tag = "MeadDetail" =>
              /\ ~mead_detail.needs_refresh => calls' = <<>>
              /\ mead_detail.needs_refresh /\ Len(calls') = 3 /\ AllOk(calls') =>
                    /\ mead_detail'.mead = get_mead(db, current_view.id)
                    /\ mead_detail'.ingredients = get_ingredients(db, current_view.id)
                    /\ mead_detail'.log_entries = get_log_entries(db, current_view.id)
                    /\ ~mead_detail'.needs_refresh
              /\ mead_detail.needs_refresh /\ SomeFailed(calls') => mead_detail' = mead_detail
        /\ current_view.tag \in {"MainMenu", "NewMead"} => calls' = <<>>
    ]_vars

\* ------------------------------------------------------------ C7
\* C7: whenever a store operation issued in a step fails (create, delete,
\* update, create log entry, create ingredient, or a reload read), the status
\* message is set to the store's error and the view, the screen states and
\* the snapshots are as they were before the operation.
C7_FailureSetsStatusKeepsState ==
    [][SomeFailed(calls') =>
        /\ status_message' = Some(Msg("Error", <<>>))
        /\ current_view' = current_view
        /\ main_menu' = main_menu
        /\ mead_list' = mead_list
        /\ new_mead' = new_mead
        /\ mead_detail' = mead_detail
    ]_vars

\* ------------------------------------------------------------ C8
\* C8: Enter on the submit slot of the new-record form calls the store's
\* create exactly once with the record built from the form; on success the
\* view becomes Menu, the record is in the store and a status message is set;
\* on failure the view stays NewMead, the whole form (buffers, current_field,
\* editing) and the store are unchanged and the status message is the error.
C8_SubmitCreatesOnce ==
    [][(/\ KeyStep
        /\ current_view = NewMead
        /\ key'.code = "Enter"
        /\ NewMeadField_from_index(new_mead.current_field) = "Submit") =>
        /\ Len(calls') = 1
        /\ calls'[1].op = "create_mead"
        /\ calls'[1].ok =>
              /\ current_view' = MainMenu
              /\ status_message' # None
              /\ db'.meads = <<[build_mead(new_mead) EXCEPT !.id = db.next_mead_id]>> \o db.meads
        /\ ~calls'[1].ok =>
              /\ current_view' = NewMead
              /\ new_mead' = new_mead
              /\ db' = db
              /\ status_message' = Some(Msg("Error", <<>>))
    ]_vars

\* A submit of a form whose name was typed has failed: the form is still on
\* the submit slot with the typed name and the error is shown.
C8_Witness ==
    /\ current_view = NewMead
    /\ calls = <<Call("create_mead", 0, FALSE)>>
    /\ new_mead.current_field = 10
    /\ new_mead.name.value # <<>>
    /\ status_message = Some(Msg("Error", <<>>))

C10_ExitOnlyByQuitInMenu ==
    [][/\ ~should_exit
       /\ should_exit' => /\ KeyStep
                          /\ current_view = MainMenu
                          /\ IsChar(key', "q")
                          /\ current_view' = MainMenu
                          /\ pc' = "exited"
    ]_vars

\* 'q' was pressed in Menu after the other views had been visited.
C10_Witness ==
    /\ should_exit
    /\ pc = "exited"
    /\ keys_read >= 3
    /\ IsChar(key, "q")

\* ----------------------------------------------------------- C11
\* C11: every transition into List (Menu->List, Detail->List) leaves
\* mead_list.needs_refresh true and every transition into Detail(id) leaves
\* mead_detail.needs_refresh true when the view becomes active; the step
\* that follows is the render step, and a render step of a stale List or
\* Detail issues a store read.
C11_EnteredScreenIsStale ==
    [][/\ (KeyStep /\ current_view # MeadList /\ current_view' = MeadList) =>
              mead_list'.needs_refresh /\ pc' = "draw"
       /\ (KeyStep /\ current_view.tag # "MeadDetail" /\ current_view'.tag = "MeadDetail") =>
              mead_detail'.needs_refresh /\ pc' = "draw"
       /\ (DrawStep /\ current_view = MeadList /\ mead_list.needs_refresh) =>
              calls' # <<>> /\ calls'[1].op = "get_all_meads"
       /\ (DrawStep /\ current_view.tag = "MeadDetail" /\ mead_detail.needs_refresh) =>
              calls' # <<>> /\ calls'[1].op = "get_mead" /\ calls'[1].id = current_view.id
    ]_vars

\* The list was entered again from Detail, after its first reload had
\* cleared the flag: it is stale once more and about to be rendered.
C11_Witness ==
    /\ current_view = MeadList
    /\ key.code = "Esc"
    /\ pc = "draw"
    /\ mead_list.needs_refresh
    /\ mead_list.meads # <<>>
    /\ mead_detail.mead # None

\* ----------------------------------------------------------- C12
\* C12: every transition into a screen leaves its transient edit state
\* cleared: entering NewMead yields the initial form state, and entering
\* Detail(id) yields current_field = 0, editing = false, both sub-forms
\* hidden, ingredient_field = 0 and empty/default log and ingredient inputs,
\* whatever was done on that screen during an earlier visit.
C12_EnteredScreenIsReset ==
    [][/\ (KeyStep /\ current_view # NewMead /\ current_view' = NewMead) =>
              new_mead' = NewMeadView_new
       /\ (KeyStep /\ current_view.tag # "MeadDetail" /\ current_view'.tag = "MeadDetail") =>
              /\ mead_detail'.current_field = 0
              /\ ~mead_detail'.editing
              /\ ~mead_detail'.show_log_input
              /\ ~mead_detail'.show_ingredient_input
              /\ mead_detail'.ingredient_field = 0
              /\ mead_detail'.log_input.value = <<>>
              /\ mead_detail'.ingredient_name_input.value = <<>>
              /\ mead_detail'.ingredient_amount_input.value = <<>>
              /\ mead_detail'.ingredient_unit_input.value = <<"o", "z">>
              /\ mead_detail'.selected_ingredient_type = "Fruit"
    ]_vars

\* ----------------------------------------------------------- C13
\* The field list that Tab navigates on the detail screen.
OnParentList(v) == ~v.show_log_input /\ ~v.show_ingredient_input
OnIngredientList(v) == ~v.show_log_input /\ v.show_ingredient_input

\* C13: for every field list (Menu: 2 options, form: 11 slots, detail form:
\* 5 slots, ingredient sub-form: 4 slots) next from index i gives
\* (i + 1) mod n and previous gives (i - 1) mod n, so next from the last
\* slot lands on 0 and previous from 0 on the last slot; the index stays in
\* [0, n-1]; previous undoes next.  On the detail screen the list is the one
\* navigation is directed to: the parent list with no sub-form open, the
\* ingredient list while the ingredient sub-form is open.
C13_FieldListsWrap ==
    [][NavLive =>
        /\ key'.code = "MainMenuView::next" =>
              main_menu'.selected = (main_menu.selected + 1) % 2
        /\ key'.code = "MainMenuView::previous" =>
              main_menu'.selected = (main_menu.selected + 2 - 1) % 2
        /\ key'.code = "NewMeadView::next_field" =>
              new_mead'.current_field = (new_mead.current_field + 1) % 11
        /\ key'.code = "NewMeadView::previous_field" =>
              new_mead'.current_field = (new_mead.current_field + 11 - 1) % 11
        /\ (key'.code = "MeadDetailView::next_field" /\ OnParentList(mead_detail)) =>
              mead_detail'.current_field = (mead_detail.current_field + 1) % 5
        /\ (key'.code = "MeadDetailView::previous_field" /\ OnParentList(mead_detail)) =>
              mead_detail'.current_field = (mead_detail.current_field + 5 - 1) % 5
        /\ (key'.code = "MeadDetailView::next_field" /\ OnIngredientList(mead_detail)) =>
              mead_detail'.ingredient_field = (mead_detail.ingredient_field + 1) % 4
        /\ (key'.code = "MeadDetailView::previous_field" /\ OnIngredientList(mead_detail)) =>
              mead_detail'.ingredient_field = (mead_detail.ingredient_field + 4 - 1) % 4
        /\ main_menu'.selected \in 0..1
        /\ new_mead'.current_field \in 0..10
        /\ mead_detail'.current_field \in 0..4
        /\ mead_detail'.ingredient_field \in 0..3
        /\ MainMenuView_previous(MainMenuView_next(main_menu)).selected = main_menu.selected
        /\ NewMead_previous_field(NewMead_next_field(new_mead)).current_field
              = new_mead.current_field
        /\ Detail_previous_field(Detail_next_field(mead_detail)).current_field
              = mead_detail.current_field
        /\ Detail_previous_field(Detail_next_field(mead_detail)).ingredient_field
              = mead_detail.ingredient_field
    ]_vars

\* next has just wrapped the ingredient sub-form from the category slot to
\* slot 0, the parent list standing on its last slot.
C13_Witness ==
    /\ pc = "nav_detail"
    /\ key.code = "MeadDetailView::next_field"
    /\ mead_detail.show_ingredient_input
    /\ mead_detail.ingredient_field = 0
    /\ mead_detail.selected_ingredient_type # "Fruit"
    /\ mead_detail.current_field = 4

\* ----------------------------------------------------------- C14
\* n forward steps of the status and of the ingredient category.
RECURSIVE StatusForward(_, _)
StatusForward(st, n) == IF n = 0 THEN st ELSE MeadStatus_next(StatusForward(st, n - 1))

RECURSIVE CategoryForward(_, _)
CategoryForward(ty, n) == IF n = 0 THEN ty ELSE IngredientType_right(CategoryForward(ty, n - 1))

OnStatusSlot(v) == OnParentList(v) /\ v.current_field = 1
OnCategorySlot(v) == v.show_ingredient_input /\ v.ingredient_field = 3

\* C14: cycling the status forward 6 times from any status returns to it and
\* visits each of the 6 statuses once; cycling the ingredient category
\* forward (Right on the category slot) 5 times from any category returns to
\* it and visits each of the 5 categories once; a backward step
\* (MeadStatus::prev, Left on the category slot) is the inverse of a forward
\* step.
C14_CyclesClose ==
    LET st == mead_detail.current_status
        ty == mead_detail.selected_ingredient_type
    IN  /\ StatusForward(st, 6) = st
        /\ Cardinality({StatusForward(st, n) : n \in 0..5}) = 6
        /\ MeadStatus_prev(MeadStatus_next(st)) = st
        /\ MeadStatus_next(MeadStatus_prev(st)) = st
        /\ OnStatusSlot(mead_detail) =>
              Detail_toggle_edit(mead_detail).current_status = MeadStatus_next(st)
        /\ CategoryForward(ty, 5) = ty
        /\ Cardinality({CategoryForward(ty, n) : n \in 0..4}) = 5
        /\ IngredientType_left(IngredientType_right(ty)) = ty
        /\ IngredientType_right(IngredientType_left(ty)) = ty
        /\ OnCategorySlot(mead_detail) =>
              /\ Detail_move_cursor_right(mead_detail).selected_ingredient_type
                    = IngredientType_right(ty)
              /\ Detail_move_cursor_left(Detail_move_cursor_right(mead_detail)) = mead_detail

\* Right on the category slot has just wrapped the category from the last
\* one to the first, the status having been cycled to the last one.
C14_Witness ==
    /\ pc = "nav_detail"
    /\ key.code = "MeadDetailView::move_cursor_right"
    /\ OnCategorySlot(mead_detail)
    /\ mead_detail.selected_ingredient_type = "Fruit"
    /\ mead_detail.current_status = "Finished"

\* ----------------------------------------------------------- C15
\* The keystroke applied to a buffer addressed in characters: c inserted at
\* the cursor, or the character before the cursor removed.
TypedInto(f, k) ==
    LET n == Len(f.value)
        i == IF f.cursor > n THEN n ELSE f.cursor
    IN  IF k.code = "Char"
        THEN [f EXCEPT !.value = SubSeq(f.value, 1, i) \o <<k.ch>> \o SubSeq(f.value, i + 1, n),
                       !.cursor = i + 1]
        ELSE IF i > 0
        THEN [f EXCEPT !.value = SubSeq(f.value, 1, i - 1) \o SubSeq(f.value, i + 1, n),
                       !.cursor = i - 1]
        ELSE f

\* C15: on the new-record form and on the detail form with no sub-form open,
\* when current_field is a text-editor slot and editing is false, any
\* printable character c or Backspace results in editing = true and in the
\* keystroke applied to the current slot's editor (c inserted at the cursor,
\* or the character before the cursor removed), for every character.
C15_AutoEditOnType ==
    [][(KeyStep /\ key'.code \in {"Char", "Backspace"}) =>
        /\ (/\ current_view = NewMead
            /\ new_mead.current_field \in 0..9
            /\ ~new_mead.editing) =>
              LET slot == NewMeadField_from_index(new_mead.current_field)
              IN  /\ new_mead'.editing
                  /\ new_mead'[slot] = TypedInto(new_mead[slot], key')
        /\ (/\ current_view.tag = "MeadDetail"
            /\ OnParentList(mead_detail)
            /\ mead_detail.current_field \in {0, 2, 3, 4}
            /\ ~mead_detail.editing) =>
              LET slot == DetailField_from_index(mead_detail.current_field)
              IN  /\ mead_detail'.editing
                  /\ mead_detail'[slot] = TypedInto(mead_detail[slot], key')
    ]_vars

\* ----------------------------------------------------------- C16
SubFormOpen(v) == v.show_log_input \/ v.show_ingredient_input

\* The parent form's position and focus, and what its editors hold.
ParentFocus(v) ==
    <<v.current_field, v.name_input.focused, v.current_gravity_input.focused,
      v.yan_added_input.focused, v.notes_input.focused>>
ParentContent(v) ==
    <<v.name_input, v.current_gravity_input, v.yan_added_input, v.notes_input,
      v.current_status, v.editing>>

\* C16: while a sub-form (log entry or ingredient) is visible no key changes
\* the parent form's current_field, the parent editors' buffers, cursors or
\* focus flags, or the current status; the parent's current_field and the
\* four parent focus flags are changed by no step from the one that opens the
\* sub-form to the one that leaves it by submit or cancel, so they equal
\* afterwards what they were just before it was opened.
C16_SubFormLeavesParentAlone ==
    [][/\ (KeyStep /\ SubFormOpen(mead_detail)) =>
              /\ ParentContent(mead_detail') = ParentContent(mead_detail)
              /\ current_view' = current_view
       /\ (SubFormOpen(mead_detail) \/ SubFormOpen(mead_detail')) =>
              ParentFocus(mead_detail') = ParentFocus(mead_detail)
    ]_vars

\* The log sub-form, opened with the parent on its last slot, has been
\* cancelled.
C16_Witness ==
    /\ current_view.tag = "MeadDetail"
    /\ key.code = "Esc"
    /\ ~SubFormOpen(mead_detail)
    /\ mead_detail.log_input.focused
    /\ mead_detail.current_field = 4
    /\ mead_detail.notes_input.focused

\* ----------------------------------------------------------- C17
\* The record snapshots of the List and of the Detail screen.
Snapshots(l, v) == <<l.meads, v.mead, v.ingredients, v.log_entries>>

\* C17: no key handler modifies a record snapshot: the List's record sequence
\* and the Detail's record, ingredient list and log-entry list change only in
\* the render step's successful reload, which replaces them wholesale with
\* the store's result.
C17_SnapshotsChangeOnlyByReload ==
    [][Snapshots(mead_list', mead_detail') # Snapshots(mead_list, mead_detail) =>
        /\ DrawStep
        /\ calls' # <<>> /\ AllOk(calls')
        /\ current_view = MeadList => mead_list'.meads = get_all_meads(db)
        /\ current_view.tag = "MeadDetail" =>
              /\ mead_detail'.mead = get_mead(db, current_view.id)
              /\ mead_detail'.ingredients = get_ingredients(db, current_view.id)
              /\ mead_detail'.log_entries = get_log_entries(db, current_view.id)
    ]_vars

\* ----------------------------------------------------------- C18
\* The write the key press issued and the store accepted, if any.
Accepted(cs, op) == \E i \in 1..Len(cs) : cs[i].op = op /\ cs[i].ok

\* C18 as claimed: every mutation the store accepts (create from the form,
\* delete from the List, update from the Detail, create log entry, create
\* ingredient) sets, in the same key-handling step, the needs_refresh flag of
\* the screen whose snapshot it affects.
C18_AcceptedWriteMarksStale ==
    [][KeyStep =>
        /\ Accepted(calls', "create_mead") => mead_list'.needs_refresh
        /\ Accepted(calls', "delete_mead") => mead_list'.needs_refresh
        /\ Accepted(calls', "update_mead") => mead_detail'.needs_refresh
        /\ Accepted(calls', "create_log_entry") => mead_detail'.needs_refresh
        /\ Accepted(calls', "create_ingredient") => mead_detail'.needs_refresh
    ]_vars

\* C18 amended: an accepted delete sets the List's needs_refresh and an
\* accepted update, log entry or ingredient sets the Detail's, in the same
\* key-handling step; an accepted create from the form sets no flag in its
\* step (the List's flag and snapshot stay as they were and the view becomes
\* Menu), and the List's flag is set by the step that next enters the List.
C18_AcceptedWriteMarksStaleButCreate ==
    [][KeyStep =>
        /\ Accepted(calls', "create_mead") =>
              /\ mead_list' = mead_list
              /\ mead_detail' = mead_detail
              /\ current_view' = MainMenu
        /\ Accepted(calls', "delete_mead") => mead_list'.needs_refresh
        /\ Accepted(calls', "update_mead") => mead_detail'.needs_refresh
        /\ Accepted(calls', "create_log_entry") => mead_detail'.needs_refresh
        /\ Accepted(calls', "create_ingredient") => mead_detail'.needs_refresh
        /\ (current_view # MeadList /\ current_view' = MeadList) => mead_list'.needs_refresh
    ]_vars

\* A record has been created from the form after the List had been loaded:
\* the List's flag is still clear and its snapshot lacks the record.
C18_Witness ==
    /\ Accepted(calls, "create_mead")
    /\ current_view = MainMenu
    /\ ~mead_list.needs_refresh
    /\ Len(mead_list.meads) < Len(db.meads)

\* ----------------------------------------------------------- C19
\* C19: on the List screen with an empty record sequence, 'd' and Enter are
\* no-ops: no store call is made, the view stays List, the selected index
\* and needs_refresh are unchanged and no status message is set.
C19_EmptyListIgnoresDeleteAndEnter ==
    [][(/\ KeyStep
        /\ current_view = MeadList
        /\ mead_list.meads = <<>>
        /\ key'.code = "Enter" \/ IsChar(key', "d")) =>
        /\ calls' = <<>>
        /\ db' = db
        /\ current_view' = MeadList
        /\ mead_list' = mead_list
        /\ mead_detail' = mead_detail
        /\ status_message' = None
    ]_vars

\* 'd' has been pressed on a List that was loaded from an empty store.
C19_Witness ==
    /\ current_view = MeadList
    /\ IsChar(key, "d")
    /\ mead_list.meads = <<>>
    /\ ~mead_list.needs_refresh
    /\ db.meads = <<>>

\* The texts of NumericTexts that are no number.
NoNumber == {<<>>, <<"q">>, <<"é">>, <<".">>}

\* x is what a numeric editor typed over stands for, with fallback d.
StandsFor(x, f, d) ==
    /\ f.value \in NoNumber => x = d
    /\ f.value = <<"2">> => x = 2000
    /\ f.value = <<"1", ".", "5">> => x = 1500

\* C20: a numeric editor whose text is no number neither aborts nor blocks
\* a submit.  Enter on the submit slot of the new-record form issues
\* exactly create_mead, and the record an accepted call stores holds amount
\* 0, target 14.0, starting value 1.100, volume 1.0, requirement 0 for such
\* an editor; 's' on a loaded detail form issues exactly update_mead and the
\* stored record keeps the loaded record's reading for such an editor;
\* Enter on the ingredient form with a name issues exactly
\* create_ingredient, with amount 0 for such an editor.  The status
\* message afterwards is the one the store's answer alone decides.
C20_UnparsableNumberFallsBack ==
    [][KeyStep =>
        /\ (current_view = NewMead /\ NewMead_is_on_submit(new_mead) /\ key'.code = "Enter") =>
              /\ pc' # "panicked"
              /\ Len(calls') = 1 /\ calls'[1].op = "create_mead"
              /\ status_message' = IF calls'[1].ok
                                   THEN Some(Msg("Created mead", new_mead.name.value))
                                   ELSE Some(Msg("Error", <<>>))
              /\ calls'[1].ok =>
                    LET m == db'.meads[1]
                    IN  /\ Len(db'.meads) = Len(db.meads) + 1
                        /\ StandsFor(m.honey_amount_lbs, new_mead.honey_amount, 0)
                        /\ StandsFor(m.target_abv, new_mead.target_abv, 14000)
                        /\ StandsFor(m.starting_gravity, new_mead.starting_gravity, 1100)
                        /\ StandsFor(m.current_gravity, new_mead.starting_gravity, 1100)
                        /\ StandsFor(m.volume_gallons, new_mead.volume_gallons, 1000)
                        /\ StandsFor(m.yan_required, new_mead.yan_required, 0)
        /\ (current_view.tag = "MeadDetail" /\ ~in_input_mode(mead_detail)
            /\ mead_detail.mead # None /\ IsChar(key', "s")) =>
              LET old == mead_detail.mead[1]
              IN  /\ pc' # "panicked"
                  /\ Len(calls') = 1 /\ calls'[1].op = "update_mead" /\ calls'[1].id = old.id
                  /\ status_message' = IF calls'[1].ok THEN Some(Msg("Mead updated!", <<>>)) ELSE None
                  /\ calls'[1].ok =>
                        \A i \in 1..Len(db'.meads) : db'.meads[i].id = old.id =>
                            /\ StandsFor(db'.meads[i].current_gravity,
                                         mead_detail.current_gravity_input, old.current_gravity)
                            /\ StandsFor(db'.meads[i].yan_added,
                                         mead_detail.yan_added_input, old.yan_added)
        /\ (current_view.tag = "MeadDetail" /\ mead_detail.show_ingredient_input
            /\ ~mead_detail.show_log_input /\ mead_detail.mead # None
            /\ mead_detail.ingredient_name_input.value # <<>> /\ key'.code = "Enter") =>
              /\ pc' # "panicked"
              /\ Len(calls') = 1 /\ calls'[1].op = "create_ingredient"
              /\ status_message' = None
              /\ calls'[1].ok =>
                    /\ Len(db'.ingredients) = Len(db.ingredients) + 1
                    /\ StandsFor(db'.ingredients[Len(db'.ingredients)].amount,
                                 mead_detail.ingredient_amount_input, 0)
    ]_vars

\* The new-record form was submitted with "q" as its requirement and "." as
\* its volume, and the store holds the record with the defaults.
C20_Witness ==
    /\ key.code = "Enter" /\ calls = <<Call("create_mead", 0, TRUE)>>
    /\ new_mead.yan_required.value = <<"q">> /\ new_mead.volume_gallons.value = <<".">>
    /\ new_mead.honey_amount.value = <<"1", ".", "5">>
    /\ db.meads[1].yan_required = 0 /\ db.meads[1].volume_gallons = 1000
    /\ db.meads[1].honey_amount_lbs = 1500
    /\ status_message = Some(Msg("Created mead", <<"é", "m">>))

\* The detail screen has just loaded the record the new-record form of this
\* run created (the store started with one record, so it has id 2; the form
\* still holds what was submitted).
FormRecordLoaded ==
    /\ current_view = MeadDetail(2) /\ pc = "events" /\ key = NoEvent
    /\ calls # <<>> /\ calls[1] = Call("get_mead", 2, TRUE)
    /\ mead_detail.mead # None

\* C21: the detail screen that has loaded a record created from the
\* filled-in new-record form shows what was entered: name and notes in its
\* editors, status Primary, the texts and numbers (or their fallbacks) in
\* the record, the current reading equal to the starting reading and shown
\* in the reading editor, nothing added yet.
C21_FormRoundTrip ==
    FormRecordLoaded =>
        LET m == mead_detail.mead[1]
        IN  /\ m.id = 2
            /\ mead_detail.name_input.value = new_mead.name.value
            /\ mead_detail.notes_input.value = new_mead.notes.value
            /\ mead_detail.current_status = "Primary"
            /\ m.name = new_mead.name.value
            /\ m.start_date = new_mead.start_date.value
            /\ m.honey_type = new_mead.honey_type.value
            /\ m.yeast_strain = new_mead.yeast_strain.value
            /\ m.notes = new_mead.notes.value
            /\ m.status = "Primary"
            /\ StandsFor(m.honey_amount_lbs, new_mead.honey_amount, 0)
            /\ StandsFor(m.target_abv, new_mead.target_abv, 14000)
            /\ StandsFor(m.starting_gravity, new_mead.starting_gravity, 1100)
            /\ StandsFor(m.volume_gallons, new_mead.volume_gallons, 1000)
            /\ StandsFor(m.yan_required, new_mead.yan_required, 0)
            /\ m.current_gravity = m.starting_gravity
            /\ get_f64(mead_detail.current_gravity_input) = Some(m.starting_gravity)
            /\ m.yan_added = 0
            /\ get_f64(mead_detail.yan_added_input) = Some(0)

\* The record was created with "1.5" as starting reading and text that is
\* no number as amount, and the detail screen shows it.
C21_Witness ==
    /\ FormRecordLoaded
    /\ new_mead.starting_gravity.value = <<"1", ".", "5">>
    /\ new_mead.honey_amount.value = <<"q">>
    /\ mead_detail.current_gravity_input.value = <<"1", ".", "5", "0", "0">>
    /\ mead_detail.name_input.value = <<"é", "m">>
    /\ mead_detail.mead[1].honey_amount_lbs = 0

\* The key of the step moves forward (Tab, Down) or backward (Tab with
\* SHIFT, Up), as a number of slots.
IsTab(k, shift) == k.code = "Tab" /\ k.shift = shift
Moved(old, new, d, count) == new = (old + count + d) % count

\* Up and Down on the two forms: nothing moves while editing or with a
\* sub-form open, the parent index moves by one slot otherwise.
UpDownMoves ==
    /\ (current_view = NewMead /\ key'.code \in {"Up", "Down"}) =>
          IF new_mead.editing
          THEN new_mead' = new_mead
          ELSE Moved(new_mead.current_field, new_mead'.current_field,
                     IF key'.code = "Down" THEN 1 ELSE -1, NewMeadField_count)
    /\ (current_view.tag = "MeadDetail" /\ key'.code \in {"Up", "Down"}) =>
          IF in_input_mode(mead_detail)
          THEN mead_detail' = mead_detail
          ELSE /\ Moved(mead_detail.current_field, mead_detail'.current_field,
                        IF key'.code = "Down" THEN 1 ELSE -1, DetailField_count)
               /\ mead_detail'.ingredient_field = mead_detail.ingredient_field

\* Tab and Tab with SHIFT on the new-record form, and on the detail form
\* with no sub-form or the ingredient sub-form open.
TabMoves ==
    /\ (current_view = NewMead /\ key'.code = "Tab") =>
          Moved(new_mead.current_field, new_mead'.current_field,
                IF key'.shift THEN -1 ELSE 1, NewMeadField_count)
    /\ (current_view.tag = "MeadDetail" /\ key'.code = "Tab" /\ ~mead_detail.show_log_input) =>
          IF mead_detail.show_ingredient_input
          THEN /\ Moved(mead_detail.ingredient_field, mead_detail'.ingredient_field,
                        IF key'.shift THEN -1 ELSE 1, 4)
               /\ mead_detail'.current_field = mead_detail.current_field
          ELSE /\ Moved(mead_detail.current_field, mead_detail'.current_field,
                        IF key'.shift THEN -1 ELSE 1, DetailField_count)
               /\ mead_detail'.ingredient_field = mead_detail.ingredient_field

LogFormTab ==
    current_view.tag = "MeadDetail" /\ key'.code = "Tab" /\ mead_detail.show_log_input

\* C22 as stated: Up and Down move the parent index only outside editing
\* and sub-forms; Tab and Tab with SHIFT move an index by one slot in every
\* mode, whichever sub-form is open.
C22_TabAlwaysMoves ==
    [][KeyStep =>
        /\ UpDownMoves
        /\ TabMoves
        /\ LogFormTab =>
              \/ mead_detail'.current_field # mead_detail.current_field
              \/ mead_detail'.ingredient_field # mead_detail.ingredient_field
    ]_vars

\* C22, amended: as above, except that with the log sub-form open Tab and
\* Tab with SHIFT change nothing on the detail screen.
C22_TabMovesButInLogForm ==
    [][KeyStep =>
        /\ UpDownMoves
        /\ TabMoves
        /\ LogFormTab => mead_detail' = mead_detail
    ]_vars

\* Tab was pressed with the log sub-form open.
C22_Witness ==
    /\ current_view.tag = "MeadDetail" /\ IsTab(key, FALSE)
    /\ mead_detail.show_log_input /\ mead_detail.mead # None

\* The fixed orders of the two enums, and the value d steps from x in one.
StatusOrder == <<"Planning", "Primary", "Secondary", "Aging", "Bottled", "Finished">>
CategoryOrder == <<"Fruit", "Spice", "Nutrient", "Adjunct", "Other">>
StepIn(order, x, d) ==
    LET i == CHOOSE j \in 1..Len(order) : order[j] = x
    IN  order[((i - 1 + Len(order) + d) % Len(order)) + 1]

LeftRightStep ==
    KeyStep /\ current_view.tag = "MeadDetail" /\ key'.code \in {"Left", "Right"}

\* Left or Right on the category slot moves the category one step and
\* nothing else on the detail screen.
CategoryStepped ==
    (LeftRightStep /\ OnCategorySlot(mead_detail)) =>
        mead_detail' = [mead_detail EXCEPT !.selected_ingredient_type =
                           StepIn(CategoryOrder, @, IF key'.code = "Right" THEN 1 ELSE -1)]

\* C23 as stated: Left or Right on the status slot of the detail form, or
\* on the category slot of the ingredient sub-form, moves that enum one
\* step in its order and changes no editor.
C23_LeftRightCyclesEnums ==
    [][/\ CategoryStepped
       /\ (LeftRightStep /\ OnStatusSlot(mead_detail)) =>
             mead_detail' = [mead_detail EXCEPT !.current_status =
                                StepIn(StatusOrder, @, IF key'.code = "Right" THEN 1 ELSE -1)]
    ]_vars

\* C23, amended: Left or Right on the category slot moves the category one
\* step and changes nothing else; on the status slot Left and Right change
\* nothing on the detail screen, and Enter moves the status one step
\* forward and changes nothing else.
C23_LeftRightCyclesCategoryOnly ==
    [][/\ CategoryStepped
       /\ (LeftRightStep /\ OnStatusSlot(mead_detail)) => mead_detail' = mead_detail
       /\ (KeyStep /\ current_view.tag = "MeadDetail" /\ key'.code = "Enter"
           /\ OnStatusSlot(mead_detail)) =>
             mead_detail' = [mead_detail EXCEPT !.current_status = StepIn(StatusOrder, @, 1)]
    ]_vars

\* Left was pressed on the category slot and the category wrapped to the
\* last one.
C23_Witness ==
    /\ current_view.tag = "MeadDetail" /\ key.code = "Left"
    /\ OnCategorySlot(mead_detail) /\ mead_detail.selected_ingredient_type = "Other"

\* The buffer s without its i-th character, and with c put before it.
Without(s, i) == SubSeq(s, 1, i - 1) \o SubSeq(s, i + 1, Len(s))
WithBefore(s, i, c) == SubSeq(s, 1, i - 1) \o <<c>> \o SubSeq(s, i, Len(s))

\* insert_char puts c where the cursor stands and advances the cursor by one.
InsertsAtCursor(f, c) ==
    LET g == insert_char(f, c)
    IN  /\ ~g.panic
        /\ g.cursor = f.cursor + 1
        /\ \E i \in 1..(Len(f.value) + 1) :
              OffsetOf(f.value, i) = f.cursor /\ g.value = WithBefore(f.value, i, c)

\* delete_char removes the character that ends at the cursor and steps the
\* cursor back; nothing at cursor 0.
DeletesBefore(f) ==
    LET g == delete_char(f)
    IN  IF f.cursor = 0 THEN g = f
        ELSE /\ ~g.panic
             /\ g.cursor = f.cursor - 1
             /\ \E i \in 1..Len(f.value) :
                   OffsetOf(f.value, i + 1) = f.cursor /\ g.value = Without(f.value, i)

\* delete_char_forward removes the character that starts at the cursor and
\* leaves the cursor; nothing at the end.
DeletesAt(f) ==
    LET g == delete_char_forward(f)
    IN  IF f.cursor >= ByteLen(f.value) THEN g = f
        ELSE /\ ~g.panic
             /\ g.cursor = f.cursor
             /\ \E i \in 1..Len(f.value) :
                   OffsetOf(f.value, i) = f.cursor /\ g.value = Without(f.value, i)

\* C24: on every buffer and cursor an editor reaches, insert_char puts the
\* character at the cursor and advances the cursor by one, delete_char
\* removes the character before the cursor and steps back (nothing at 0),
\* delete_char_forward removes the character at the cursor and leaves the
\* cursor (nothing at the end), and insert_char followed by delete_char
\* gives the editor back.
C24_EditorOperations ==
    FieldLive =>
        /\ \A c \in FieldChars :
              /\ InsertsAtCursor(field, c)
              /\ delete_char(insert_char(field, c)) = field
        /\ DeletesBefore(field)
        /\ DeletesAt(field)

\* C25: no run of key presses and store outcomes aborts the process: no
\* String::insert or String::remove of an editor fails its assertion.
C25_NeverAborts == pc # "panicked"

\* C26: whenever the list screen holds records, its selected index is one
\* of their positions and get_selected yields the record there; so it is
\* after every reload (also one that returns fewer records), next and
\* previous.
C26_SelectedInRange ==
    mead_list.meads # <<>> =>
        /\ 0 <= mead_list.selected /\ mead_list.selected <= Len(mead_list.meads) - 1
        /\ get_selected(mead_list) = Some(mead_list.meads[mead_list.selected + 1])

\* The second of two rows was selected and deleted, and the reload that
\* followed returned the one row left: the selected index is back on it.
C26_Witness ==
    /\ current_view = MeadList /\ key = NoEvent
    /\ calls = <<Call("get_all_meads", 0, TRUE)>>
    /\ status_message = Some(Msg("Deleted mead", <<"m">>))
    /\ db.next_mead_id = 3 /\ Len(mead_list.meads) = 1
    /\ mead_list.selected = 0

\* C27: an event that is no key press (a key release, a key repeat, an
\* event that is no key event) changes no field of the application and
\* issues no store call.
C27_OtherEventsChangeNothing ==
    [][(pc = "events" /\ key'.kind \in {"Release", "Repeat", "Other"}) =>
          /\ UNCHANGED <<current_view, should_exit, main_menu, mead_list, new_mead,
                         mead_detail, status_message, db>>
          /\ calls' = <<>>
    ]_vars

\* The release of Enter arrived on the list screen while a status message
\* and a selectable row were shown.
C27_Witness ==
    /\ key.kind = "Release" /\ key.code = "Enter"
    /\ current_view = MeadList /\ status_message # None /\ mead_list.meads # <<>>

\* The ids of the rows a sequence of records holds.
IdsOf(rows) == {rows[i].id : i \in 1..Len(rows)}

\* C28: 'd' on the list with a selected row issues exactly one delete_mead,
\* for that row's id, and the view stays the list; when the store accepts
\* it the record is gone from the store, the list is marked stale and the
\* status message names the record.  The render step that follows reloads
\* the list, and when that read succeeds the snapshot is the store's rows,
\* without the deleted one.
C28_DeleteThenReload ==
    [][/\ (KeyStep /\ current_view = MeadList /\ IsChar(key', "d")
           /\ mead_list.selected < Len(mead_list.meads)) =>
             LET m == mead_list.meads[mead_list.selected + 1]
             IN  /\ Len(calls') = 1
                 /\ calls'[1].op = "delete_mead" /\ calls'[1].id = m.id
                 /\ current_view' = MeadList
                 /\ calls'[1].ok =>
                       /\ m.id \notin IdsOf(db'.meads)
                       /\ mead_list'.needs_refresh
                       /\ status_message' = Some(Msg("Deleted mead", m.name))
       /\ (DrawStep /\ current_view = MeadList /\ mead_list.needs_refresh) =>
             /\ Len(calls') = 1 /\ calls'[1].op = "get_all_meads"
             /\ calls'[1].ok =>
                   /\ mead_list'.meads = db.meads
                   /\ ~mead_list'.needs_refresh
                   /\ (Len(calls) = 1 /\ calls[1].op = "delete_mead" /\ calls[1].ok) =>
                         calls[1].id \notin IdsOf(mead_list'.meads)
    ]_vars

\* Record 1 has just been deleted: the list is stale, still shows the row,
\* and the status message names it.
C28_Witness ==
    /\ current_view = MeadList /\ IsChar(key, "d")
    /\ calls = <<Call("delete_mead", 1, TRUE)>>
    /\ mead_list.needs_refresh /\ 1 \in IdsOf(mead_list.meads)
    /\ 1 \notin IdsOf(db.meads)
    /\ status_message = Some(Msg("Deleted mead", <<"m">>))

\* The editor of a slot of v is focused as b says, if the slot has one.
SlotFocusIs(v, slot, b) == slot \notin {"Submit", "Status"} => v[slot].focused = b

\* C29: every next_field and previous_field on the parent list of the
\* new-record form or of the detail form (the steps that change
\* current_field) ends with editing = false, the editor of the slot left
\* not focused and the editor of the slot reached focused, where the slot
\* has an editor.
C29_FocusProtocol ==
    [][/\ NavStepForm =>
             /\ ~new_mead'.editing
             /\ SlotFocusIs(new_mead', NewMeadField_from_index(new_mead.current_field), FALSE)
             /\ SlotFocusIs(new_mead', NewMeadField_from_index(new_mead'.current_field), TRUE)
       /\ NavStepDetail =>
             /\ ~mead_detail'.editing
             /\ SlotFocusIs(mead_detail', DetailField_from_index(mead_detail.current_field), FALSE)
             /\ SlotFocusIs(mead_detail', DetailField_from_index(mead_detail'.current_field), TRUE)
    ]_vars

\* Tab with SHIFT was pressed while the start date was being typed: the
\* form stands on the name, out of edit mode.
C29_Witness ==
    /\ current_view = NewMead /\ IsTab(key, TRUE)
    /\ new_mead.current_field = 0 /\ ~new_mead.editing
    /\ new_mead.start_date.value = Today \o <<"é">> /\ ~new_mead.start_date.focused
    /\ new_mead.name.focused

\* C30: Esc leaves the new-record form (for the menu) only when editing is
\* false, and leaves the detail screen (for the list, marked stale) only
\* when editing is false and no sub-form is open; otherwise it only clears
\* editing, or only hides the sub-form, and the view stays.  No buffer
\* changes and no store call is issued.
C30_EscCancelsOneLevel ==
    [][(KeyStep /\ key'.code = "Esc") =>
        /\ calls' = <<>> /\ db' = db
        /\ current_view = NewMead =>
              IF new_mead.editing
              THEN /\ current_view' = NewMead
                   /\ new_mead' = [new_mead EXCEPT !.editing = FALSE]
              ELSE /\ current_view' = MainMenu
                   /\ new_mead' = new_mead
        /\ current_view.tag = "MeadDetail" =>
              IF mead_detail.editing
              THEN /\ current_view' = current_view
                   /\ mead_detail' = [mead_detail EXCEPT !.editing = FALSE]
              ELSE IF SubFormOpen(mead_detail)
              THEN /\ current_view' = current_view
                   /\ mead_detail' = [mead_detail EXCEPT !.show_log_input = FALSE,
                                                         !.show_ingredient_input = FALSE]
              ELSE /\ current_view' = MeadList
                   /\ mead_list'.needs_refresh
                   /\ mead_detail' = mead_detail
    ]_vars

\* Esc was pressed while the name of record 1 was being typed: the screen
\* is still the detail screen, out of edit mode, with the typed name.
C30_Witness ==
    /\ current_view = MeadDetail(1) /\ key.code = "Esc"
    /\ ~mead_detail.editing /\ ~SubFormOpen(mead_detail)
    /\ mead_detail.mead # None /\ mead_detail.mead[1].name = <<"m">>
    /\ mead_detail.name_input.value = <<"m", "é">>

\* C31: create_mead is issued only by Enter on the submit slot of the
\* new-record form.  Enter on any other slot of the form issues no store
\* call, leaves the store and the buffers alone and moves to the next slot
\* with editing = false; on the submit slot a character key and Backspace
\* change nothing on the form.
C31_CreateOnlyOnSubmit ==
    [][/\ (\E i \in 1..Len(calls') : calls'[i].op = "create_mead") =>
             /\ KeyStep /\ current_view = NewMead
             /\ key'.code = "Enter" /\ new_mead.current_field = 10
       /\ (KeyStep /\ current_view = NewMead /\ key'.code = "Enter"
           /\ new_mead.current_field # 10) =>
             /\ calls' = <<>> /\ db' = db /\ current_view' = NewMead
             /\ new_mead'.current_field = new_mead.current_field + 1
             /\ ~new_mead'.editing
             /\ \A i \in 1..Len(NewMeadEditors) :
                   /\ new_mead'[NewMeadEditors[i]].value = new_mead[NewMeadEditors[i]].value
                   /\ new_mead'[NewMeadEditors[i]].cursor = new_mead[NewMeadEditors[i]].cursor
       /\ (KeyStep /\ current_view = NewMead /\ key'.code \in {"Char", "Backspace"}
           /\ new_mead.current_field = 10) =>
             /\ calls' = <<>> /\ new_mead' = new_mead /\ current_view' = NewMead
    ]_vars

\* Enter was pressed while the name was being typed: the form stands on the
\* start date, out of edit mode, and no store call was issued.
C31_Witness ==
    /\ current_view = NewMead /\ key.code = "Enter" /\ calls = <<>>
    /\ new_mead.current_field = 1 /\ ~new_mead.editing
    /\ new_mead.name.value = <<"é">>

EnterOnParent ==
    /\ KeyStep /\ current_view.tag = "MeadDetail" /\ key'.code = "Enter"
    /\ ~SubFormOpen(mead_detail)

\* C32: on the detail screen with no sub-form open, Enter on the status
\* slot moves the status one step forward in its order, leaves editing
\* false and changes nothing else; Enter on a text slot flips editing and
\* changes nothing else.  Neither issues a store call.
C32_EnterCyclesOrToggles ==
    [][EnterOnParent =>
        /\ calls' = <<>> /\ db' = db /\ current_view' = current_view
        /\ IF mead_detail.current_field = 1
           THEN /\ ~mead_detail.editing /\ ~mead_detail'.editing
                /\ mead_detail' = [mead_detail EXCEPT
                                      !.current_status = StepIn(StatusOrder, @, 1)]
           ELSE mead_detail' = [mead_detail EXCEPT !.editing = ~mead_detail.editing]
    ]_vars

\* Enter was pressed on the status slot of record 1 twice: its status shown
\* is two steps past the stored one.
C32_Witness ==
    /\ current_view = MeadDetail(1) /\ key.code = "Enter"
    /\ mead_detail.current_field = 1 /\ ~mead_detail.editing
    /\ mead_detail.mead # None /\ mead_detail.mead[1].status = "Primary"
    /\ mead_detail.current_status = "Aging"

\* The screen's needs_refresh flag, FALSE for the screens that have none.
Stale(view, list, detail) ==
    \/ view.tag = "MeadList" /\ list.needs_refresh
    \/ view.tag = "MeadDetail" /\ detail.needs_refresh

\* The reload attempts for a screen among the store calls cs.
ReloadAttempts(cs, view) ==
    {i \in 1..Len(cs) :
        \/ view.tag = "MeadList" /\ cs[i].op = "get_all_meads"
        \/ view.tag = "MeadDetail" /\ cs[i].op = "get_mead" /\ cs[i].id = view.id}

DetailWrites == {"update_mead", "create_log_entry", "create_ingredient"}

\* C34: every store write issued from the detail screen targets the record
\* of the active view.
C34_WritesTargetActiveRecord ==
    [][(KeyStep /\ current_view.tag = "MeadDetail") =>
          \A i \in 1..Len(calls') :
              calls'[i].op \in DetailWrites => calls'[i].id = current_view.id
    ]_vars

\* C35: while the detail screen is active and not stale, it holds a
\* snapshot of the record it is open on.
C35_FreshDetailHoldsItsRecord ==
    (current_view.tag = "MeadDetail" /\ ~mead_detail.needs_refresh) =>
        /\ mead_detail.mead # None
        /\ mead_detail.mead[1].id = current_view.id

\* Record 1 of a store that also holds record 2 was opened with the fifth
\* key, and the render that followed has loaded it.
C35_Witness ==
    /\ current_view = MeadDetail(1) /\ ~mead_detail.needs_refresh
    /\ pc = "events" /\ keys_read = 5
    /\ calls # <<>> /\ calls[1] = Call("get_mead", 1, TRUE)
    /\ \E i \in 1..Len(db.meads) : db.meads[i].id = 2

\* The interaction modes of the detail screen that are on.
DetailModes(v) ==
    {m \in {"editing", "show_log_input", "show_ingredient_input"} : v[m]}

\* C36: at most one of editing, show_log_input and show_ingredient_input is
\* on, and none is on while another screen is active.
C36_ModesExclusive ==
    /\ Cardinality(DetailModes(mead_detail)) <= 1
    /\ current_view.tag # "MeadDetail" => DetailModes(mead_detail) = {}

\* The list is active again after a visit to the detail screen in which
\* the ingredient sub-form was opened and closed.
C36_Witness ==
    /\ current_view = MeadList /\ key.code = "Esc" /\ keys_read = 5
    /\ mead_detail.mead # None
    /\ mead_detail.ingredient_name_input.focused
    /\ DetailModes(mead_detail) = {}

\* The states one loop cycle leads to from the states S when Esc is
\* pressed: the key is handled, then the screen is rendered with the store
\* returning anything.
AfterEsc(S) ==
    UNION {LET b == Pressed(a, Key("Esc"))
           IN  {[draw(b, r) EXCEPT !.calls = <<>>] : r \in ReadOutcomes(b.current_view)}
           : a \in S}

\* The number of Esc presses the claim gives for a state.
EscPresses(a) ==
    CASE a.current_view.tag = "MainMenu" -> 0
      [] a.current_view.tag = "MeadList" -> 1
      [] a.current_view.tag = "NewMead" -> IF a.new_mead.editing THEN 2 ELSE 1
      [] a.current_view.tag = "MeadDetail" ->
            IF DetailModes(a.mead_detail) # {} THEN 3 ELSE 2

RECURSIVE EscRun(_, _)
EscRun(S, n) == IF n = 0 THEN S ELSE EscRun(AfterEsc(S), n - 1)

\* C37: wherever the program waits for a key with the exit flag clear,
\* pressing Esc the stated number of times (Detail in edit or sub-form
\* mode 3, Detail browsing or Form editing 2, List or Form not editing 1)
\* ends on the Menu with the exit flag still clear, whatever the reads of
\* the renders in between return, and not one press earlier; a 'q' pressed
\* there sets the exit flag.
C37_EscReachesMenu ==
    (pc = "events" /\ ~should_exit) =>
        LET n == EscPresses(App)
        IN  /\ n <= 3
            /\ \A b \in EscRun({App}, n) :
                  /\ b.current_view = MainMenu /\ ~b.should_exit
                  /\ Pressed(b, Char("q")).should_exit
            /\ n > 0 => \A b \in EscRun({App}, n - 1) : b.current_view # MainMenu

\* The program waits for a key on the detail screen with the log sub-form
\* open and text typed into it: three presses away from the Menu.
C37_Witness ==
    /\ pc = "events" /\ ~should_exit /\ current_view.tag = "MeadDetail"
    /\ mead_detail.show_log_input /\ mead_detail.log_input.value = <<"é">>
    /\ EscPresses(App) = 3
    /\ \E b \in EscRun({App}, 2) : b.current_view = MeadList /\ b.mead_list.needs_refresh

\* Enter is handled on the detail screen with a sub-form shown.
EnterInSubForm ==
    /\ KeyStep /\ current_view.tag = "MeadDetail" /\ key'.code = "Enter"
    /\ SubFormOpen(mead_detail)

\* The create a sub-form's Enter leads to has nothing to send.
NothingToCreate(v) ==
    \/ v.mead = None
    \/ v.show_log_input /\ v.log_input.value = <<>>
    \/ ~v.show_log_input /\ v.show_ingredient_input /\ v.ingredient_name_input.value = <<>>

\* C38: a shown sub-form is hidden only by Esc or by an Enter whose create
\* the store accepted.  Enter with an empty log text, an empty ingredient
\* name or no snapshot issues no store call and changes nothing; otherwise
\* it issues the one create of the shown sub-form, and when that fails the
\* detail screen (sub-form, inputs, needs_refresh) and the store are as
\* they were.
C38_SubFormHiddenOnlyBy ==
    [][/\ (SubFormOpen(mead_detail) /\ ~SubFormOpen(mead_detail')) =>
            /\ KeyStep
            /\ \/ key'.code = "Esc"
               \/ key'.code = "Enter" /\ Len(calls') = 1 /\ calls'[1].ok
       /\ EnterInSubForm =>
            IF NothingToCreate(mead_detail)
            THEN calls' = <<>> /\ mead_detail' = mead_detail /\ db' = db
            ELSE /\ Len(calls') = 1
                 /\ calls'[1].op = IF mead_detail.show_log_input
                                   THEN "create_log_entry" ELSE "create_ingredient"
                 /\ ~calls'[1].ok => (mead_detail' = mead_detail /\ db' = db)
                 /\ calls'[1].ok => ~SubFormOpen(mead_detail')
    ]_vars

\* Enter in the log sub-form sent the typed text, the store refused it, and
\* the sub-form is still shown with the text in it.
C38_Witness ==
    /\ current_view = MeadDetail(1) /\ key.code = "Enter"
    /\ calls = <<Call("create_log_entry", 1, FALSE)>>
    /\ mead_detail.show_log_input /\ mead_detail.log_input.value = <<"é">>
    /\ ~mead_detail.needs_refresh /\ db.log_entries = <<>>

\* The ingredient editor typed characters go to, none on the category slot.
IngredientTarget(v) ==
    IF v.ingredient_field = 3 THEN {}
    ELSE {DetailIngredientEditors[v.ingredient_field + 1]}

\* C39: while the ingredient sub-form is shown, the ingredient editors that
\* are focused are exactly the one ingredient_field addresses, and none on
\* the category slot.
C39_IngredientFocusFollowsSlot ==
    mead_detail.show_ingredient_input =>
        {DetailIngredientEditors[i] : i \in FocusedIn(mead_detail, DetailIngredientEditors)}
            = IngredientTarget(mead_detail)

ReadOps == {"get_all_meads", "get_mead", "get_ingredients", "get_log_entries"}

\* No read of the last step failed.
ReadsOk == \A i \in 1..Len(calls) : calls[i].op \in ReadOps => calls[i].ok

ListFresh ==
    /\ ~mead_list.needs_refresh
    /\ mead_list.meads = get_all_meads(db)

DetailFresh ==
    /\ ~mead_detail.needs_refresh
    /\ mead_detail.mead = get_mead(db, current_view.id)
    /\ mead_detail.ingredients = get_ingredients(db, current_view.id)
    /\ mead_detail.log_entries = get_log_entries(db, current_view.id)

\* The loop has ended.
Stopped == pc \in {"exited", "panicked"}

\* From some point on every read succeeds: then a stale List is left or
\* becomes fresh, unless the program stops.
ListReloadSucceeds ==
    <>[]ReadsOk =>
        [](Stale(current_view, mead_list, mead_detail) /\ current_view = MeadList
              => <>(current_view # MeadList \/ ListFresh \/ Stopped))

\* The same for a stale Detail.
DetailReloadSucceeds ==
    <>[]ReadsOk =>
        [](Stale(current_view, mead_list, mead_detail) /\ current_view.tag = "MeadDetail"
              => <>(current_view.tag # "MeadDetail" \/ DetailFresh \/ Stopped))

\* C40: if the view stays List or Detail with needs_refresh set, events
\* keep arriving and the reads succeed from some point on, then the flag
\* is eventually cleared with the snapshot equal to the store's content.
C40_StaleScreenEventuallyFresh == ListReloadSucceeds /\ DetailReloadSucceeds

====
